---- MODULE Spec2Model ----
(***************************************************************************)
(* Model of the IndieLisboa web API: the sale-creation transaction, the   *)
(* stock bulk update, and the login / refresh / logout session protocol.  *)
(*                                                                         *)
(* Every handler that opens a database transaction is two steps: the      *)
(* request step runs the code up to and including the first query of the  *)
(* transaction (where a REPEATABLE READ transaction takes its snapshot),  *)
(* the commit step runs the rest of the callback, the commit and the code *)
(* after it.  Other requests interleave between the two steps, as they do *)
(* at the awaits of the handlers.                                          *)
(*                                                                         *)
(* The store is the snapshot-isolation store of spec section 5: a         *)
(* transaction that writes a row which another transaction has committed  *)
(* to since its snapshot is aborted (serialization failure) and all its   *)
(* writes are rolled back.                                                 *)
(***************************************************************************)
EXTENDS Integers, Sequences, FiniteSets, TLC

\* ------------------------------------------------------------------ bounds
NumReqs == 2       \* request slots: requests in flight at the same time
MaxQty == 2        \* largest quantity in a request and in the initial stock
MaxList == 2       \* longest list of a request body
MaxSales == 2      \* sale requests admitted while fewer Sale rows exist
MaxTime == 2       \* the clock stops here
MaxTokens == 3     \* refresh tokens drawn before logins and refreshes stop
RefreshTTL == 1    \* config.refreshExpiresInSeconds, in clock ticks
AccessTTL == 0     \* config.accessExpiresInSeconds, in clock ticks
MaxProducts == 3   \* products created before creation stops

\* ------------------------------------------------------------ populations
Products == {"p1", "p2"}          \* productIds with a Product row
Locations == {"l1", "l2"}         \* locationIds with a Location row
UnknownProduct == "p0"            \* a productId with no Product row
UnknownLocation == "l0"           \* a locationId with no Location row
Reqs == 1 .. NumReqs

\* request.auth.userId of the requests handled in slot r
Caller(r) == IF r = 1 THEN "u1" ELSE "u2"

VARIABLES
    stock,      \* table "stock": (productId, locationId) -> quantity
    sales,      \* table of Sale rows, saleId = position
    saleItems,  \* table of SaleItem rows
    req,        \* per slot: the sale or stock request being handled
    users,      \* table "User": userId -> row
    now,        \* the server's clock
    tokens,     \* how many refresh tokens randomToken has drawn
    signed,     \* userId -> payload of the access token last signed for that user
    areq,       \* per slot: the auth or user request being handled
    product,    \* table "product", rows created through the API: productId = position
    tshirt,     \* table "tshirt": productId -> tags
    bag,        \* table "bag": productId -> tags
    book,       \* table "book": productId -> tags
    preq        \* the product request handled last and its response

invVars == <<stock, sales, saleItems, req>>
authVars == <<users, now, tokens, signed, areq>>
catVars == <<product, tshirt, bag, book, preq>>
vars == <<stock, sales, saleItems, req, users, now, tokens, signed, areq,
          product, tshirt, bag, book, preq>>

\* ------------------------------------------------------------ HTTP status
BadRequest == 400
Conflict == 409
NotFound == 404
ServerError == 500
Created == 201
NoContent == 204
Ok == 200
Authentication == 401
Forbidden == 403

\* ---------------------------------------------------------------- helpers
\* Array.prototype.lastIndexOf
LastIndexOf(s, x) ==
    LET hits == {i \in 1 .. Len(s) : s[i] = x}
    IN  IF hits = {} THEN 0 ELSE CHOOSE i \in hits : \A j \in hits : j <= i

Keys(list) == [i \in 1 .. Len(list) |-> list[i].key]

\* Variant of HasRepeated that compares with < and so finds no repeat.
HasRepeatedNever(ids) == \E idx \in 1 .. Len(ids) : LastIndexOf(ids, ids[idx]) < idx
\* ids.some((id, idx) => ids.lastIndexOf(id) != idx)
HasRepeated(ids) == \E idx \in 1 .. Len(ids) : LastIndexOf(ids, ids[idx]) # idx

Range(s) == {s[i] : i \in 1 .. Len(s)}

\* Stock.findAll({raw: true, where: {productId: productIds, locationId}})
FindAllStock(productIds, locationId) ==
    [p \in {q \in Range(productIds) : <<q, locationId>> \in DOMAIN stock}
        |-> stock[<<p, locationId>>]]

\* list.every(item => { find; if (stock == null || stock.quantity < item.quantity)
\* return false; stock.quantity -= item.quantity; return true })
RECURSIVE EveryItem(_, _, _)
\* Variant of EveryItem that validates without decrementing the rows.
EveryItemNoDecrement(list, rows, i) ==
    IF i > Len(list) THEN [valid |-> TRUE, rows |-> rows]
    ELSE IF list[i].key \notin DOMAIN rows \/ rows[list[i].key] < list[i].quantity
         THEN [valid |-> FALSE, rows |-> rows]
         ELSE EveryItem(list, rows, i + 1)
\* Variant of EveryItem that compares with <= instead of <.
EveryItemOffByOne(list, rows, i) ==
    IF i > Len(list) THEN [valid |-> TRUE, rows |-> rows]
    ELSE IF list[i].key \notin DOMAIN rows \/ rows[list[i].key] <= list[i].quantity
         THEN [valid |-> FALSE, rows |-> rows]
         ELSE EveryItem(list, [rows EXCEPT ![list[i].key] = @ - list[i].quantity], i + 1)
EveryItem(list, rows, i) ==
    IF i > Len(list) THEN [valid |-> TRUE, rows |-> rows]
    ELSE IF list[i].key \notin DOMAIN rows \/ rows[list[i].key] < list[i].quantity
         THEN [valid |-> FALSE, rows |-> rows]
         ELSE EveryItem(list, [rows EXCEPT ![list[i].key] = @ - list[i].quantity], i + 1)

IdleReq ==
    [op |-> "none", pc |-> "idle", caller |-> "", locationId |-> "", productId |-> "",
     list |-> <<>>, snapshot |-> <<>>, rows |-> <<>>, valid |-> FALSE, stale |-> {}, opened |-> FALSE,
     status |-> 0, data |-> 0]

\* A commit of `keys` by slot r: every other open transaction's snapshot is now
\* behind on those rows.
MarkStale(rq, r, keys) ==
    [x \in Reqs |-> IF x # r /\ rq[x].pc = "tx"
                    THEN [rq[x] EXCEPT !.stale = @ \cup keys] ELSE rq[x]]

\* The handler has answered: the slot keeps the request and its response until the
\* next request arrives.
Finish(rec, code, data) ==
    [rec EXCEPT !.pc = "done", !.status = code, !.data = data, !.stale = {}]

\* ------------------------------------------------------------------ inputs
SaleItemInputs == [key : Products, quantity : 1 .. MaxQty]
StockItemInputs == [key : Locations \cup {UnknownLocation}, quantity : {-1, 0, MaxQty}]
StockSetInputs == [key : Locations \cup {UnknownLocation}, quantity : {0, MaxQty}]
ListsOf(S) == UNION {[1 .. n -> S] : n \in 0 .. MaxList}

InitStock ==
    (<<"p1", "l1">> :> MaxQty) @@ (<<"p2", "l1">> :> 1) @@ (<<"p1", "l2">> :> 1)

InFlightSales == Cardinality({r \in Reqs : req[r].op = "sale" /\ req[r].pc = "tx"})

\* ------------------------------------------------------------- createSale
\* Variant of createSaleRequest that refuses an empty list.
createSaleRequestNonEmpty(r, locationId, list) ==
    /\ UNCHANGED <<authVars, catVars>>
    /\ req[r].pc = "idle"
    /\ Len(sales) + InFlightSales < MaxSales
    /\ LET productIds == Keys(list)
           start == [IdleReq EXCEPT !.op = "sale", !.caller = Caller(r),
                                    !.locationId = locationId, !.list = list]
       IN  IF HasRepeated(productIds) \/ list = <<>>
           THEN req' = [req EXCEPT ![r] = Finish(start, BadRequest, 0)]
           ELSE LET stockResult == FindAllStock(productIds, locationId)
                    every == EveryItem(list, stockResult, 1)
                IN  req' = [req EXCEPT ![r] =
                        [start EXCEPT !.pc = "tx", !.opened = TRUE,
                                      !.snapshot = stockResult,
                                      !.rows = every.rows, !.valid = every.valid]]
    /\ UNCHANGED <<stock, sales, saleItems>>

createSaleRequest(r, locationId, list) ==
    /\ UNCHANGED <<authVars, catVars>>
    /\ req[r].pc = "idle"
    /\ Len(sales) + InFlightSales < MaxSales
    /\ LET productIds == Keys(list)
           start == [IdleReq EXCEPT !.op = "sale", !.caller = Caller(r),
                                    !.locationId = locationId, !.list = list]
       IN  IF HasRepeated(productIds)
           THEN req' = [req EXCEPT ![r] = Finish(start, BadRequest, 0)]
           ELSE LET stockResult == FindAllStock(productIds, locationId)
                    every == EveryItem(list, stockResult, 1)
                IN  req' = [req EXCEPT ![r] =
                        [start EXCEPT !.pc = "tx", !.opened = TRUE,
                                      !.snapshot = stockResult,
                                      !.rows = every.rows, !.valid = every.valid]]
    /\ UNCHANGED <<stock, sales, saleItems>>

SaleWriteKeys(r) == {<<p, req[r].locationId>> : p \in DOMAIN req[r].rows}

SaleWrites(r) ==
    LET saleId == Len(sales) + 1
        keys == SaleWriteKeys(r)
    IN  /\ sales' = Append(sales, [status |-> "completed",
                                   sellerId |-> req[r].caller,
                                   locationId |-> req[r].locationId])
        /\ saleItems' = saleItems \cup
                {[saleId |-> saleId, productId |-> req[r].list[i].key,
                  quantity |-> req[r].list[i].quantity] :
                    i \in 1 .. Len(req[r].list)}
        /\ stock' = [k \in DOMAIN stock \cup keys |->
                        IF k \in keys THEN req[r].rows[k[1]] ELSE stock[k]]

\* Variant of createSaleCommit that writes before it looks at `valid`.
createSaleCommitLate(r) ==
    /\ UNCHANGED <<authVars, catVars>>
    /\ req[r].pc = "tx" /\ req[r].op = "sale"
    /\ IF req[r].stale \cap SaleWriteKeys(r) # {} \/ req[r].locationId \notin Locations
       THEN /\ req' = [req EXCEPT ![r] = Finish(@, ServerError, 0)]
            /\ UNCHANGED <<stock, sales, saleItems>>
       ELSE /\ SaleWrites(r)
            /\ req' = [MarkStale(req, r, SaleWriteKeys(r)) EXCEPT
                          ![r] = IF req[r].valid THEN Finish(@, Created, Len(sales) + 1)
                                 ELSE Finish(@, Conflict, 0)]

\* Variant of createSaleCommit whose writes go through whatever was committed to
\* the rows since they were read.
createSaleCommitLastWriterWins(r) ==
    /\ UNCHANGED <<authVars, catVars>>
    /\ req[r].pc = "tx" /\ req[r].op = "sale"
    /\ IF ~req[r].valid
       THEN /\ req' = [req EXCEPT ![r] = Finish(@, Conflict, 0)]
            /\ UNCHANGED <<stock, sales, saleItems>>
       ELSE IF req[r].locationId \notin Locations
       THEN /\ req' = [req EXCEPT ![r] = Finish(@, ServerError, 0)]
            /\ UNCHANGED <<stock, sales, saleItems>>
       ELSE /\ SaleWrites(r)
            /\ req' = [MarkStale(req, r, SaleWriteKeys(r)) EXCEPT
                          ![r] = Finish(@, Created, Len(sales) + 1)]

\* Variant of createSaleCommit whose Conflict tells a missing row from a short one.
createSaleCommitDiscloses(r) ==
    /\ UNCHANGED <<authVars, catVars>>
    /\ req[r].pc = "tx" /\ req[r].op = "sale"
    /\ IF ~req[r].valid
       THEN /\ req' = [req EXCEPT ![r] =
                    Finish(@, Conflict,
                           IF \E i \in 1 .. Len(req[r].list) :
                                   req[r].list[i].key \notin DOMAIN req[r].snapshot
                           THEN 1 ELSE 2)]
            /\ UNCHANGED <<stock, sales, saleItems>>
       ELSE IF req[r].stale \cap SaleWriteKeys(r) # {} \/ req[r].locationId \notin Locations
       THEN /\ req' = [req EXCEPT ![r] = Finish(@, ServerError, 0)]
            /\ UNCHANGED <<stock, sales, saleItems>>
       ELSE /\ SaleWrites(r)
            /\ req' = [MarkStale(req, r, SaleWriteKeys(r)) EXCEPT
                          ![r] = Finish(@, Created, Len(sales) + 1)]

createSaleCommit(r) ==
    /\ UNCHANGED <<authVars, catVars>>
    /\ req[r].pc = "tx" /\ req[r].op = "sale"
    /\ IF ~req[r].valid
       THEN \* return null: the transaction commits with no write, then ConflitError
            /\ req' = [req EXCEPT ![r] = Finish(@, Conflict, 0)]
            /\ UNCHANGED <<stock, sales, saleItems>>
       ELSE IF req[r].stale \cap SaleWriteKeys(r) # {} \/ req[r].locationId \notin Locations
       THEN \* a write fails (serialization failure, or the Sale row's foreign key):
            \* the transaction is rolled back and the error reaches the error handler
            /\ req' = [req EXCEPT ![r] = Finish(@, ServerError, 0)]
            /\ UNCHANGED <<stock, sales, saleItems>>
       ELSE \* Sale.create, SaleItem.bulkCreate, Stock.bulkCreate(stockResult), commit
            /\ SaleWrites(r)
            /\ req' = [MarkStale(req, r, SaleWriteKeys(r)) EXCEPT
                          ![r] = Finish(@, Created, Len(sales) + 1)]

\* ----------------------------------------------------- updateProductstock
updateProductstockRequest(r, productId, list) ==
    /\ UNCHANGED <<authVars, catVars>>
    /\ req[r].pc = "idle"
    /\ LET locations == Keys(list)
           start == [IdleReq EXCEPT !.op = "stock", !.caller = Caller(r),
                                    !.productId = productId, !.list = list]
       IN  IF HasRepeated(locations)
           THEN req' = [req EXCEPT ![r] = Finish(start, BadRequest, 0)]
           ELSE \* Product.findByPk(productId): the first query of the transaction
                req' = [req EXCEPT ![r] =
                        [start EXCEPT !.pc = "tx", !.opened = TRUE,
                                      !.valid = (productId \in Products)]]
    /\ UNCHANGED <<stock, sales, saleItems>>

\* toUpsert: one row per item of the list
ToUpsert(r) ==
    [k \in {<<req[r].productId, req[r].list[i].key>> : i \in 1 .. Len(req[r].list)} |->
        LET i == CHOOSE j \in 1 .. Len(req[r].list) : req[r].list[j].key = k[2]
        IN  req[r].list[i].quantity]

\* Variant of updateProductstockCommit that adds the quantities to the rows it finds.
updateProductstockCommitDelta(r) ==
    /\ UNCHANGED <<authVars, catVars>>
    /\ req[r].pc = "tx" /\ req[r].op = "stock"
    /\ LET toUpsert == ToUpsert(r)
           keys == DOMAIN toUpsert
       IN  IF ~req[r].valid
           THEN /\ req' = [req EXCEPT ![r] = Finish(@, NotFound, 0)]
                /\ UNCHANGED <<stock, sales, saleItems>>
           ELSE IF req[r].stale \cap keys # {}
           THEN /\ req' = [req EXCEPT ![r] = Finish(@, ServerError, 0)]
                /\ UNCHANGED <<stock, sales, saleItems>>
           ELSE IF \E k \in keys : k[2] \notin Locations
           THEN /\ req' = [req EXCEPT ![r] = Finish(@, Conflict, 0)]
                /\ UNCHANGED <<stock, sales, saleItems>>
           ELSE /\ stock' = [k \in DOMAIN stock \cup keys |->
                                IF k \in keys
                                THEN (IF k \in DOMAIN stock THEN stock[k] ELSE 0) + toUpsert[k]
                                ELSE stock[k]]
                /\ req' = [MarkStale(req, r, keys) EXCEPT ![r] = Finish(@, NoContent, 0)]
                /\ UNCHANGED <<sales, saleItems>>

\* Variant of updateProductstockCommit that keeps the rows at known locations when
\* the upsert meets an unknown one.
updateProductstockCommitPartial(r) ==
    /\ UNCHANGED <<authVars, catVars>>
    /\ req[r].pc = "tx" /\ req[r].op = "stock"
    /\ LET toUpsert == ToUpsert(r)
           keys == DOMAIN toUpsert
           known == {k \in keys : k[2] \in Locations}
       IN  IF ~req[r].valid
           THEN /\ req' = [req EXCEPT ![r] = Finish(@, NotFound, 0)]
                /\ UNCHANGED <<stock, sales, saleItems>>
           ELSE IF req[r].stale \cap keys # {}
           THEN /\ req' = [req EXCEPT ![r] = Finish(@, ServerError, 0)]
                /\ UNCHANGED <<stock, sales, saleItems>>
           ELSE /\ stock' = [k \in DOMAIN stock \cup known |->
                                IF k \in known THEN toUpsert[k] ELSE stock[k]]
                /\ req' = [MarkStale(req, r, known) EXCEPT
                              ![r] = Finish(@, IF known = keys THEN NoContent ELSE Conflict, 0)]
                /\ UNCHANGED <<sales, saleItems>>

updateProductstockCommit(r) ==
    /\ UNCHANGED <<authVars, catVars>>
    /\ req[r].pc = "tx" /\ req[r].op = "stock"
    /\ LET toUpsert == ToUpsert(r)
           keys == DOMAIN toUpsert
       IN  IF ~req[r].valid
           THEN \* Product not found: the callback returns a NotFoundError
                /\ req' = [req EXCEPT ![r] = Finish(@, NotFound, 0)]
                /\ UNCHANGED <<stock, sales, saleItems>>
           ELSE IF req[r].stale \cap keys # {}
           THEN \* serialization failure: rolled back, rethrown (throw err)
                /\ req' = [req EXCEPT ![r] = Finish(@, ServerError, 0)]
                /\ UNCHANGED <<stock, sales, saleItems>>
           ELSE IF \E k \in keys : k[2] \notin Locations
           THEN \* ForeignKeyConstraintError: rolled back, ConflitError
                /\ req' = [req EXCEPT ![r] = Finish(@, Conflict, 0)]
                /\ UNCHANGED <<stock, sales, saleItems>>
           ELSE \* Stock.bulkCreate(toUpsert, {updateOnDuplicate: ["quantity"]})
                /\ stock' = [k \in DOMAIN stock \cup keys |->
                                IF k \in keys THEN toUpsert[k] ELSE stock[k]]
                /\ req' = [MarkStale(req, r, keys) EXCEPT ![r] = Finish(@, NoContent, 0)]
                /\ UNCHANGED <<sales, saleItems>>

\* The response has been sent: the slot takes the next request.
Respond(r) ==
    /\ UNCHANGED <<authVars, catVars>>
    /\ req[r].pc = "done"
    /\ req' = [req EXCEPT ![r] = IdleReq]
    /\ UNCHANGED <<stock, sales, saleItems>>


\* ------------------------------------------------------------ User table
UserIds == {"u1", "u2"}               \* userIds a row can have
Usernames == {"alice", "bob"}
UnknownUser == "u9"                   \* a userId with no User row
Administrator == "u0"                 \* userId of the account created at start-up
NullToken == 0                        \* token: null
NullDate == 0 - 1                     \* tokenExpiresDate: null
NoUser == [userId |-> "", username |-> "", password |-> "", role |-> "",
           token |-> NullToken, tokenExpiresDate |-> NullDate]

InitUsers ==
    "u1" :> [userId |-> "u1", username |-> "alice", password |-> "hash:alicepw",
             role |-> "seller", token |-> NullToken, tokenExpiresDate |-> NullDate]

\* utils/crypto: validateData(data, hash), randomToken(), getNowAfterSeconds(s),
\* hasDateExpired(date)
HashData(password) ==
    CASE password = "alicepw" -> "hash:alicepw"
      [] password = "bobpw" -> "hash:bobpw"
      [] OTHER -> "hash:other"
ValidateData(password, hash) == HashData(password) = hash
RandomToken == tokens + 1
GetNowAfterSeconds(seconds) == now + seconds
HasDateExpired(date) == date < now

\* jwt: an access token is its payload and whether its signature verifies
NoAccessToken == [userId |-> "", role |-> "", exp |-> NullDate, sig |-> "none"]
BadAccessToken == [userId |-> "u1", role |-> "seller", exp |-> MaxTime, sig |-> "bad"]
NoPayload == [userId |-> "", role |-> "", exp |-> NullDate]
SignPayload(payload) == [userId |-> payload.userId, role |-> payload.role,
                         exp |-> payload.exp, sig |-> "ok"]
\* A token the server signed for a user whose row no longer exists
OrphanAccessToken == SignPayload([userId |-> UnknownUser, role |-> "basic", exp |-> MaxTime])
\* jwt.verify(token, secret, {ignoreExpiration: true}) resolves
VerifyTokenIgnoringExpiration(token) == token.sig = "ok"

\* Access tokens a client can present: none, one that does not verify, or one the
\* server signed
AccessTokenInputs ==
    {NoAccessToken, BadAccessToken, OrphanAccessToken}
        \cup {SignPayload(signed[u]) : u \in {x \in DOMAIN signed : signed[x] # NoPayload}}
\* Refresh tokens a client can present: none, or any the server has handed out
RefreshTokenInputs == 0 .. tokens

\* Refresh tokens drawn so far that no User row stores
OldTokens == {t \in 1 .. tokens : \A u \in DOMAIN users : users[u].token # t}

NoCookies == [access |-> NoAccessToken, refresh |-> NullToken]
\* scopes: undefined, and request.auth: not set
NoScopes == [defined |-> FALSE, list |-> <<>>]
NoAuth == [userId |-> "", role |-> ""]
IdleAuth ==
    [op |-> "none", pc |-> "idle", accessToken |-> NoAccessToken,
     refreshToken |-> NullToken, username |-> "", password |-> "",
     user |-> NoUser, valid |-> FALSE, stale |-> FALSE, opened |-> FALSE,
     reused |-> FALSE,
     status |-> 0, cookies |-> NoCookies, cleared |-> FALSE,
     scopes |-> NoScopes, auth |-> NoAuth, ran |-> FALSE, challenge |-> FALSE,
     role |-> ""]

\* A commit of the row of `userId` by slot r: every other open transaction that
\* read that row is now behind on it.
MarkStaleUser(rq, r, userId) ==
    [x \in Reqs |-> IF x # r /\ rq[x].pc = "tx" /\ rq[x].user.userId = userId
                    THEN [rq[x] EXCEPT !.stale = TRUE] ELSE rq[x]]

\* The response of the handler or of requestErrorHandler; sendAuthenticationError
\* sets the WWW-Authenticate header.
Answer(rec, code) ==
    [rec EXCEPT !.pc = "done", !.status = code, !.stale = FALSE,
                !.challenge = (code = Authentication)]

\* setAccessCookie and setRefreshCookie
SetCookies(rec, user) ==
    [rec EXCEPT !.cookies =
        [access |-> SignPayload([userId |-> user.userId, role |-> user.role,
                                 exp |-> GetNowAfterSeconds(AccessTTL)]),
         refresh |-> user.token]]

AccessPayload(user) ==
    [userId |-> user.userId, role |-> user.role, exp |-> GetNowAfterSeconds(AccessTTL)]

\* User.findOne({where}): the row matching, or null
FindUser(where) ==
    LET found == {u \in DOMAIN users : \A f \in DOMAIN where : users[u][f] = where[f]}
    IN  IF found # {} THEN users[CHOOSE u \in found : TRUE] ELSE NoUser

\* ------------------------------------------------------------------ login
loginRequest(r, username, password) ==
    /\ UNCHANGED <<invVars, catVars>>
    /\ areq[r].pc = "idle"
    /\ tokens < MaxTokens
    /\ LET user == FindUser([username |-> username])
       IN  areq' = [areq EXCEPT ![r] =
                [IdleAuth EXCEPT !.op = "login", !.pc = "tx", !.opened = TRUE,
                                 !.username = username, !.password = password,
                                 !.user = user,
                                 !.valid = (user # NoUser
                                            /\ ValidateData(password, user.password))]]
    /\ UNCHANGED <<users, now, tokens, signed>>

\* Variant of loginCommit that computes the expiry from the access token's lifetime.
loginCommitAccessTTL(r) ==
    /\ UNCHANGED <<invVars, catVars>>
    /\ areq[r].pc = "tx" /\ areq[r].op = "login"
    /\ IF ~areq[r].valid
       THEN /\ areq' = [areq EXCEPT ![r] = Answer(@, NotFound)]
            /\ UNCHANGED <<users, tokens, signed>>
       ELSE IF areq[r].stale
       THEN /\ areq' = [areq EXCEPT ![r] = Answer(@, ServerError)]
            /\ tokens' = RandomToken
            /\ UNCHANGED <<users, signed>>
       ELSE LET user == [areq[r].user EXCEPT
                            !.token = RandomToken,
                            !.tokenExpiresDate = GetNowAfterSeconds(AccessTTL)]
            IN  /\ users' = [users EXCEPT ![user.userId] = user]
                /\ tokens' = RandomToken
                /\ signed' = [signed EXCEPT ![user.userId] = AccessPayload(user)]
                /\ areq' = [MarkStaleUser(areq, r, user.userId) EXCEPT
                              ![r] = SetCookies(Answer(@, Ok), user)]
    /\ UNCHANGED now

\* Variant of loginCommit that answers a wrong password AuthenticationError.
loginCommitDistinguish(r) ==
    /\ UNCHANGED <<invVars, catVars>>
    /\ areq[r].pc = "tx" /\ areq[r].op = "login"
    /\ IF ~areq[r].valid
       THEN /\ areq' = [areq EXCEPT ![r] =
                    Answer(@, IF areq[r].user = NoUser THEN NotFound ELSE Authentication)]
            /\ UNCHANGED <<users, tokens, signed>>
       ELSE IF areq[r].stale
       THEN /\ areq' = [areq EXCEPT ![r] = Answer(@, ServerError)]
            /\ tokens' = RandomToken
            /\ UNCHANGED <<users, signed>>
       ELSE LET user == [areq[r].user EXCEPT
                            !.token = RandomToken,
                            !.tokenExpiresDate = GetNowAfterSeconds(RefreshTTL)]
            IN  /\ users' = [users EXCEPT ![user.userId] = user]
                /\ tokens' = RandomToken
                /\ signed' = [signed EXCEPT ![user.userId] = AccessPayload(user)]
                /\ areq' = [MarkStaleUser(areq, r, user.userId) EXCEPT
                              ![r] = SetCookies(Answer(@, Ok), user)]
    /\ UNCHANGED now

\* Variant of loginCommit that keeps the token the row already stores.
loginCommitKeepsToken(r) ==
    /\ UNCHANGED <<invVars, catVars>>
    /\ areq[r].pc = "tx" /\ areq[r].op = "login"
    /\ IF ~areq[r].valid
       THEN /\ areq' = [areq EXCEPT ![r] = Answer(@, NotFound)]
            /\ UNCHANGED <<users, tokens, signed>>
       ELSE IF areq[r].stale
       THEN /\ areq' = [areq EXCEPT ![r] = Answer(@, ServerError)]
            /\ tokens' = RandomToken
            /\ UNCHANGED <<users, signed>>
       ELSE LET user == [areq[r].user EXCEPT
                            !.token = IF @ = NullToken THEN RandomToken ELSE @,
                            !.tokenExpiresDate = GetNowAfterSeconds(RefreshTTL)]
            IN  /\ users' = [users EXCEPT ![user.userId] = user]
                /\ tokens' = RandomToken
                /\ signed' = [signed EXCEPT ![user.userId] = AccessPayload(user)]
                /\ areq' = [MarkStaleUser(areq, r, user.userId) EXCEPT
                              ![r] = SetCookies(Answer(@, Ok), user)]
    /\ UNCHANGED now

loginCommit(r) ==
    /\ UNCHANGED <<invVars, catVars>>
    /\ areq[r].pc = "tx" /\ areq[r].op = "login"
    /\ IF ~areq[r].valid
       THEN \* return null, then NotFoundError
            /\ areq' = [areq EXCEPT ![r] = Answer(@, NotFound)]
            /\ UNCHANGED <<users, tokens, signed>>
       ELSE IF areq[r].stale
       THEN \* user.save fails (serialization failure): rolled back, rethrown
            /\ areq' = [areq EXCEPT ![r] = Answer(@, ServerError)]
            /\ tokens' = RandomToken
            /\ UNCHANGED <<users, signed>>
       ELSE LET user == [areq[r].user EXCEPT
                            !.token = RandomToken,
                            !.tokenExpiresDate = GetNowAfterSeconds(RefreshTTL)]
            IN  /\ users' = [users EXCEPT ![user.userId] = user]
                /\ tokens' = RandomToken
                /\ signed' = [signed EXCEPT ![user.userId] = AccessPayload(user)]
                /\ areq' = [MarkStaleUser(areq, r, user.userId) EXCEPT
                              ![r] = SetCookies(Answer(@, Ok), user)]
    /\ UNCHANGED now

\* ---------------------------------------------------------------- refresh
\* Variant of refreshRequest without the hasDateExpired test.
refreshRequestNoExpiry(r, accessToken, refreshToken) ==
    /\ UNCHANGED <<invVars, catVars>>
    /\ areq[r].pc = "idle"
    /\ tokens < MaxTokens
    /\ LET start == [IdleAuth EXCEPT !.op = "refresh", !.accessToken = accessToken,
                                     !.refreshToken = refreshToken,
                                     !.reused = (refreshToken \in OldTokens)]
       IN  IF accessToken = NoAccessToken \/ refreshToken = NullToken
           THEN areq' = [areq EXCEPT ![r] = Answer(start, Authentication)]
           ELSE IF ~VerifyTokenIgnoringExpiration(accessToken)
           THEN areq' = [areq EXCEPT ![r] = Answer(start, Forbidden)]
           ELSE LET user == FindUser([userId |-> accessToken.userId,
                                        token |-> refreshToken])
                IN  areq' = [areq EXCEPT ![r] =
                        [start EXCEPT !.pc = "tx", !.opened = TRUE, !.user = user,
                                      !.valid = (user # NoUser)]]
    /\ UNCHANGED <<users, now, tokens, signed>>

\* Variant of refreshRequest that finds the row by the refresh token alone.
refreshRequestTokenOnly(r, accessToken, refreshToken) ==
    /\ UNCHANGED <<invVars, catVars>>
    /\ areq[r].pc = "idle"
    /\ tokens < MaxTokens
    /\ LET start == [IdleAuth EXCEPT !.op = "refresh", !.accessToken = accessToken,
                                     !.refreshToken = refreshToken,
                                     !.reused = (refreshToken \in OldTokens)]
       IN  IF accessToken = NoAccessToken \/ refreshToken = NullToken
           THEN areq' = [areq EXCEPT ![r] = Answer(start, Authentication)]
           ELSE IF ~VerifyTokenIgnoringExpiration(accessToken)
           THEN areq' = [areq EXCEPT ![r] = Answer(start, Forbidden)]
           ELSE LET user == FindUser([token |-> refreshToken])
                IN  areq' = [areq EXCEPT ![r] =
                        [start EXCEPT !.pc = "tx", !.opened = TRUE, !.user = user,
                                      !.valid = (user # NoUser
                                                 /\ ~HasDateExpired(user.tokenExpiresDate))]]
    /\ UNCHANGED <<users, now, tokens, signed>>

\* Variant of refreshRequest that refuses an access token whose expiry has passed.
refreshRequestChecksAccessExpiry(r, accessToken, refreshToken) ==
    /\ UNCHANGED <<invVars, catVars>>
    /\ areq[r].pc = "idle"
    /\ tokens < MaxTokens
    /\ LET start == [IdleAuth EXCEPT !.op = "refresh", !.accessToken = accessToken,
                                     !.refreshToken = refreshToken,
                                     !.reused = (refreshToken \in OldTokens)]
       IN  IF accessToken = NoAccessToken \/ refreshToken = NullToken
           THEN areq' = [areq EXCEPT ![r] = Answer(start, Authentication)]
           ELSE IF ~(VerifyTokenIgnoringExpiration(accessToken) /\ now <= accessToken.exp)
           THEN areq' = [areq EXCEPT ![r] = Answer(start, Forbidden)]
           ELSE LET user == FindUser([userId |-> accessToken.userId,
                                        token |-> refreshToken])
                IN  areq' = [areq EXCEPT ![r] =
                        [start EXCEPT !.pc = "tx", !.opened = TRUE, !.user = user,
                                      !.valid = (user # NoUser
                                                 /\ ~HasDateExpired(user.tokenExpiresDate))]]
    /\ UNCHANGED <<users, now, tokens, signed>>

\* Variant of refreshRequest that verifies the access token before it tests for
\* missing cookies.
refreshRequestVerifyFirst(r, accessToken, refreshToken) ==
    /\ UNCHANGED <<invVars, catVars>>
    /\ areq[r].pc = "idle"
    /\ tokens < MaxTokens
    /\ LET start == [IdleAuth EXCEPT !.op = "refresh", !.accessToken = accessToken,
                                     !.refreshToken = refreshToken,
                                     !.reused = (refreshToken \in OldTokens)]
       IN  IF ~VerifyTokenIgnoringExpiration(accessToken)
           THEN areq' = [areq EXCEPT ![r] = Answer(start, Forbidden)]
           ELSE IF refreshToken = NullToken
           THEN areq' = [areq EXCEPT ![r] = Answer(start, Authentication)]
           ELSE LET user == FindUser([userId |-> accessToken.userId,
                                        token |-> refreshToken])
                IN  areq' = [areq EXCEPT ![r] =
                        [start EXCEPT !.pc = "tx", !.opened = TRUE, !.user = user,
                                      !.valid = (user # NoUser
                                                 /\ ~HasDateExpired(user.tokenExpiresDate))]]
    /\ UNCHANGED <<users, now, tokens, signed>>

refreshRequest(r, accessToken, refreshToken) ==
    /\ UNCHANGED <<invVars, catVars>>
    /\ areq[r].pc = "idle"
    /\ tokens < MaxTokens
    /\ LET start == [IdleAuth EXCEPT !.op = "refresh", !.accessToken = accessToken,
                                     !.refreshToken = refreshToken,
                                     !.reused = (refreshToken \in OldTokens)]
       IN  IF accessToken = NoAccessToken \/ refreshToken = NullToken
           THEN areq' = [areq EXCEPT ![r] = Answer(start, Authentication)]
           ELSE IF ~VerifyTokenIgnoringExpiration(accessToken)
           THEN areq' = [areq EXCEPT ![r] = Answer(start, Forbidden)]
           ELSE LET user == FindUser([userId |-> accessToken.userId,
                                        token |-> refreshToken])
                IN  areq' = [areq EXCEPT ![r] =
                        [start EXCEPT !.pc = "tx", !.opened = TRUE, !.user = user,
                                      !.valid = (user # NoUser
                                                 /\ ~HasDateExpired(user.tokenExpiresDate))]]
    /\ UNCHANGED <<users, now, tokens, signed>>

\* Variant of refreshCommit that extends the expiry and keeps the token.
refreshCommitKeepToken(r) ==
    /\ UNCHANGED <<invVars, catVars>>
    /\ areq[r].pc = "tx" /\ areq[r].op = "refresh"
    /\ IF ~areq[r].valid
       THEN /\ areq' = [areq EXCEPT ![r] = Answer(@, Forbidden)]
            /\ UNCHANGED <<users, tokens, signed>>
       ELSE IF areq[r].stale
       THEN /\ areq' = [areq EXCEPT ![r] = Answer(@, ServerError)]
            /\ UNCHANGED <<users, tokens, signed>>
       ELSE LET user == [areq[r].user EXCEPT
                            !.tokenExpiresDate = GetNowAfterSeconds(RefreshTTL)]
            IN  /\ users' = [users EXCEPT ![user.userId] = user]
                /\ signed' = [signed EXCEPT ![user.userId] = AccessPayload(user)]
                /\ areq' = [MarkStaleUser(areq, r, user.userId) EXCEPT
                              ![r] = SetCookies(Answer(@, NoContent), user)]
                /\ UNCHANGED tokens
    /\ UNCHANGED now

\* Variant of refreshCommit that signs the role of the presented access token.
refreshCommitKeepsRole(r) ==
    /\ UNCHANGED <<invVars, catVars>>
    /\ areq[r].pc = "tx" /\ areq[r].op = "refresh"
    /\ IF ~areq[r].valid
       THEN /\ areq' = [areq EXCEPT ![r] = Answer(@, Forbidden)]
            /\ UNCHANGED <<users, tokens, signed>>
       ELSE IF areq[r].stale
       THEN /\ areq' = [areq EXCEPT ![r] = Answer(@, ServerError)]
            /\ tokens' = RandomToken
            /\ UNCHANGED <<users, signed>>
       ELSE LET user == [areq[r].user EXCEPT
                            !.token = RandomToken,
                            !.tokenExpiresDate = GetNowAfterSeconds(RefreshTTL)]
                claimed == [user EXCEPT !.role = areq[r].accessToken.role]
            IN  /\ users' = [users EXCEPT ![user.userId] = user]
                /\ tokens' = RandomToken
                /\ signed' = [signed EXCEPT ![user.userId] = AccessPayload(claimed)]
                /\ areq' = [MarkStaleUser(areq, r, user.userId) EXCEPT
                              ![r] = SetCookies(Answer(@, NoContent), claimed)]
    /\ UNCHANGED now

\* Variant of refreshCommit whose save goes through whatever was committed to the
\* row since it was read.
refreshCommitLastWriterWins(r) ==
    /\ UNCHANGED <<invVars, catVars>>
    /\ areq[r].pc = "tx" /\ areq[r].op = "refresh"
    /\ IF ~areq[r].valid
       THEN /\ areq' = [areq EXCEPT ![r] = Answer(@, Forbidden)]
            /\ UNCHANGED <<users, tokens, signed>>
       ELSE LET user == [areq[r].user EXCEPT
                            !.token = RandomToken,
                            !.tokenExpiresDate = GetNowAfterSeconds(RefreshTTL)]
            IN  /\ users' = [users EXCEPT ![user.userId] = user]
                /\ tokens' = RandomToken
                /\ signed' = [signed EXCEPT ![user.userId] = AccessPayload(user)]
                /\ areq' = [MarkStaleUser(areq, r, user.userId) EXCEPT
                              ![r] = SetCookies(Answer(@, NoContent), user)]
    /\ UNCHANGED now

refreshCommit(r) ==
    /\ UNCHANGED <<invVars, catVars>>
    /\ areq[r].pc = "tx" /\ areq[r].op = "refresh"
    /\ IF ~areq[r].valid
       THEN \* return null, then ForbiddenError
            /\ areq' = [areq EXCEPT ![r] = Answer(@, Forbidden)]
            /\ UNCHANGED <<users, tokens, signed>>
       ELSE IF areq[r].stale
       THEN \* user.save fails (serialization failure): rolled back, rethrown
            /\ areq' = [areq EXCEPT ![r] = Answer(@, ServerError)]
            /\ tokens' = RandomToken
            /\ UNCHANGED <<users, signed>>
       ELSE LET user == [areq[r].user EXCEPT
                            !.token = RandomToken,
                            !.tokenExpiresDate = GetNowAfterSeconds(RefreshTTL)]
            IN  /\ users' = [users EXCEPT ![user.userId] = user]
                /\ tokens' = RandomToken
                /\ signed' = [signed EXCEPT ![user.userId] = AccessPayload(user)]
                /\ areq' = [MarkStaleUser(areq, r, user.userId) EXCEPT
                              ![r] = SetCookies(Answer(@, NoContent), user)]
    /\ UNCHANGED now

\* ----------------------------------------------------------------- logout
\* `lookup` is whether User.findOne resolves ("ok") or rejects ("fails").
logoutRequest(r, accessToken, lookup) ==
    /\ UNCHANGED <<invVars, catVars>>
    /\ areq[r].pc = "idle"
    /\ LET start == [IdleAuth EXCEPT !.op = "logout", !.accessToken = accessToken]
       IN  IF ~VerifyTokenIgnoringExpiration(accessToken)
           THEN \* verifyToken throws: caught, the cookies are cleared
                areq' = [areq EXCEPT ![r] = [Answer(start, NoContent) EXCEPT !.cleared = TRUE]]
           ELSE IF lookup = "fails"
           THEN \* findOne throws: rolled back, caught, the cookies are cleared
                areq' = [areq EXCEPT ![r] =
                    [Answer(start, NoContent) EXCEPT !.opened = TRUE, !.cleared = TRUE]]
           ELSE areq' = [areq EXCEPT ![r] =
                    [start EXCEPT !.pc = "tx", !.opened = TRUE,
                                  !.user = FindUser([userId |-> accessToken.userId])]]
    /\ UNCHANGED <<users, now, tokens, signed>>

\* Variant of logoutCommit that lets a failed save reach the client.
logoutCommitSurfacesFailure(r) ==
    /\ UNCHANGED <<invVars, catVars>>
    /\ areq[r].pc = "tx" /\ areq[r].op = "logout"
    /\ IF areq[r].user = NoUser
       THEN /\ areq' = [areq EXCEPT ![r] = [Answer(@, NoContent) EXCEPT !.cleared = TRUE]]
            /\ UNCHANGED users
       ELSE IF areq[r].stale
       THEN /\ areq' = [areq EXCEPT ![r] = Answer(@, ServerError)]
            /\ UNCHANGED users
       ELSE LET user == [areq[r].user EXCEPT !.token = NullToken,
                                             !.tokenExpiresDate = NullDate]
            IN  /\ users' = [users EXCEPT ![user.userId] = user]
                /\ areq' = [MarkStaleUser(areq, r, user.userId) EXCEPT
                              ![r] = [Answer(@, NoContent) EXCEPT !.cleared = TRUE]]
    /\ UNCHANGED <<now, tokens, signed>>

\* Variant of logoutCommit that nulls the token and keeps the expiry.
logoutCommitTokenOnly(r) ==
    /\ UNCHANGED <<invVars, catVars>>
    /\ areq[r].pc = "tx" /\ areq[r].op = "logout"
    /\ IF areq[r].user = NoUser \/ areq[r].stale
       THEN /\ areq' = [areq EXCEPT ![r] = [Answer(@, NoContent) EXCEPT !.cleared = TRUE]]
            /\ UNCHANGED users
       ELSE LET user == [areq[r].user EXCEPT !.token = NullToken]
            IN  /\ users' = [users EXCEPT ![user.userId] = user]
                /\ areq' = [MarkStaleUser(areq, r, user.userId) EXCEPT
                              ![r] = [Answer(@, NoContent) EXCEPT !.cleared = TRUE]]
    /\ UNCHANGED <<now, tokens, signed>>

logoutCommit(r) ==
    /\ UNCHANGED <<invVars, catVars>>
    /\ areq[r].pc = "tx" /\ areq[r].op = "logout"
    /\ IF areq[r].user = NoUser \/ areq[r].stale
       THEN \* nothing to do, or user.save fails and the error is swallowed
            /\ areq' = [areq EXCEPT ![r] = [Answer(@, NoContent) EXCEPT !.cleared = TRUE]]
            /\ UNCHANGED users
       ELSE LET user == [areq[r].user EXCEPT !.token = NullToken,
                                             !.tokenExpiresDate = NullDate]
            IN  /\ users' = [users EXCEPT ![user.userId] = user]
                /\ areq' = [MarkStaleUser(areq, r, user.userId) EXCEPT
                              ![r] = [Answer(@, NoContent) EXCEPT !.cleared = TRUE]]
    /\ UNCHANGED <<now, tokens, signed>>

\* ------------------------------------------------------------- createUser
\* User.create({username, password, name, role: Role.BASIC})
createUser(r, username, password) ==
    /\ UNCHANGED <<invVars, catVars>>
    /\ areq[r].pc = "idle"
    /\ LET start == [IdleAuth EXCEPT !.op = "createUser", !.username = username,
                                     !.password = password]
           taken == FindUser([username |-> username]) # NoUser
       IN  IF taken \/ DOMAIN users = UserIds
           THEN \* UniqueConstraintError on username
                /\ taken
                /\ areq' = [areq EXCEPT ![r] = Answer(start, BadRequest)]
                /\ UNCHANGED users
           ELSE LET userId == CHOOSE u \in UserIds : u \notin DOMAIN users
                IN  /\ users' = users @@ (userId :>
                            [userId |-> userId, username |-> username,
                             password |-> password, role |-> "basic",
                             token |-> NullToken, tokenExpiresDate |-> NullDate])
                    /\ areq' = [areq EXCEPT ![r] = Answer(start, Created)]
    /\ UNCHANGED <<now, tokens, signed>>

\* ------------------------------------------------------ patchUserFullInfo
\* The caller passed the administrator check; `auth` is the userId of its token.
\* The row is loaded without token or tokenExpiresDate and save() writes the
\* fields that were set, so the role (and name) only.
\* Variant of patchUserFullInfo that sets the role of the caller's own row too.
patchUserFullInfoOwnRole(r, auth, userId, role) ==
    /\ UNCHANGED <<invVars, catVars>>
    /\ areq[r].pc = "idle"
    /\ LET start == [IdleAuth EXCEPT !.op = "patchUserFullInfo", !.opened = TRUE,
                                     !.auth = [userId |-> auth, role |-> "admin"],
                                     !.role = role,
                                     !.user = IF userId \in DOMAIN users
                                              THEN users[userId] ELSE NoUser]
       IN  IF userId \notin DOMAIN users
           THEN /\ areq' = [areq EXCEPT ![r] = Answer(start, NotFound)]
                /\ UNCHANGED users
           ELSE /\ users' = [users EXCEPT ![userId].role = role]
                /\ areq' = [MarkStaleUser(areq, r, userId) EXCEPT
                              ![r] = Answer(start, Ok)]
    /\ UNCHANGED <<now, tokens, signed>>

patchUserFullInfo(r, auth, userId, role) ==
    /\ UNCHANGED <<invVars, catVars>>
    /\ areq[r].pc = "idle"
    /\ LET start == [IdleAuth EXCEPT !.op = "patchUserFullInfo", !.opened = TRUE,
                                     !.auth = [userId |-> auth, role |-> "admin"],
                                     !.role = role,
                                     !.user = IF userId \in DOMAIN users
                                              THEN users[userId] ELSE NoUser]
       IN  IF userId \notin DOMAIN users
           THEN /\ areq' = [areq EXCEPT ![r] = Answer(start, NotFound)]
                /\ UNCHANGED users
           ELSE /\ users' = [users EXCEPT ![userId].role =
                                IF auth # userId THEN role ELSE @]
                /\ areq' = [MarkStaleUser(areq, r, userId) EXCEPT
                              ![r] = Answer(start, Ok)]
    /\ UNCHANGED <<now, tokens, signed>>

\* ----------------------------------------------------------- jwtValidator
Roles == {"basic", "seller", "manager", "admin"}
roleValue == ("basic" :> 0) @@ ("seller" :> 1) @@ ("manager" :> 15) @@ ("admin" :> 255)

\* a & b on non-negative integers
RECURSIVE BitAnd(_, _)
BitAnd(a, b) ==
    IF a = 0 \/ b = 0 THEN 0
    ELSE (a % 2) * (b % 2) + 2 * BitAnd(a \div 2, b \div 2)

\* A role shares a privilege bit with the target (not the code's test)
hasRolePrivilegesAnyBit(actualRole, targetRole) ==
    /\ targetRole \in DOMAIN roleValue
    /\ actualRole \in DOMAIN roleValue
    /\ BitAnd(roleValue[actualRole], roleValue[targetRole]) # 0

\* (actual & target) === target; a role that roleValue does not list gives
\* undefined, which & takes as 0 and === tells apart from every number.
hasRolePrivileges(actualRole, targetRole) ==
    /\ targetRole \in DOMAIN roleValue
    /\ BitAnd(IF actualRole \in DOMAIN roleValue THEN roleValue[actualRole] ELSE 0,
              roleValue[targetRole]) = roleValue[targetRole]

\* jwt.verify(token, secret): the signature verifies and exp is still ahead
VerifyToken(token) == token.sig = "ok" /\ now < token.exp

\* Tokens a client can present to a protected route: none, one that does not
\* verify, or one the server signed for u1 under some role, short- or long-lived
GuardTokenInputs ==
    {NoAccessToken, BadAccessToken}
        \cup {SignPayload([userId |-> "u1", role |-> role, exp |-> exp]) :
                    role \in Roles, exp \in {1, MaxTime + 1}}
\* The security scopes of a route: none, an empty list, or a required role
ScopeInputs ==
    {NoScopes, [defined |-> TRUE, list |-> <<>>]}
        \cup {[defined |-> TRUE, list |-> <<role>>] : role \in Roles}

\* A validator that answers an insufficient role as it answers a missing token
\* (not the code's)
jwtValidatorOneError(r, token, scopes) ==
    /\ UNCHANGED <<invVars, catVars>>
    /\ areq[r].pc = "idle"
    /\ LET start == [IdleAuth EXCEPT !.op = "jwtValidator", !.accessToken = token,
                                     !.scopes = scopes]
           auth == [userId |-> token.userId, role |-> token.role]
           first == IF scopes.list # <<>> THEN scopes.list[1] ELSE "undefined"
       IN  areq' = [areq EXCEPT ![r] =
                IF token = NoAccessToken \/ ~VerifyToken(token)
                THEN Answer(start, Authentication)
                ELSE IF scopes.defined /\ ~hasRolePrivileges(token.role, first)
                THEN [Answer(start, Authentication) EXCEPT !.auth = auth]
                ELSE [start EXCEPT !.pc = "done", !.auth = auth, !.ran = TRUE]]
    /\ UNCHANGED <<users, now, tokens, signed>>

\* expressAuthentication -> jwtValidator, then the route's handler or
\* requestErrorHandler
jwtValidator(r, token, scopes) ==
    /\ UNCHANGED <<invVars, catVars>>
    /\ areq[r].pc = "idle"
    /\ LET start == [IdleAuth EXCEPT !.op = "jwtValidator", !.accessToken = token,
                                     !.scopes = scopes]
           auth == [userId |-> token.userId, role |-> token.role]
           first == IF scopes.list # <<>> THEN scopes.list[1] ELSE "undefined"
       IN  areq' = [areq EXCEPT ![r] =
                IF token = NoAccessToken
                THEN \* token == undefined: AuthenticationError
                     Answer(start, Authentication)
                ELSE IF ~VerifyToken(token)
                THEN \* err: AuthenticationError
                     Answer(start, Authentication)
                ELSE IF ~scopes.defined
                THEN [start EXCEPT !.pc = "done", !.auth = auth, !.ran = TRUE]
                ELSE IF ~hasRolePrivileges(token.role, first)
                THEN \* AuthorizationError
                     [Answer(start, Forbidden) EXCEPT !.auth = auth]
                ELSE [start EXCEPT !.pc = "done", !.auth = auth, !.ran = TRUE]]
    /\ UNCHANGED <<users, now, tokens, signed>>

\* ------------------------------------------------------- patchUserProfile
\* `auth` is request.auth. The row is loaded with userId and name only and save()
\* writes the name, a column the rows of the model do not carry.
patchUserProfile(r, auth, userId) ==
    /\ UNCHANGED <<invVars, catVars>>
    /\ areq[r].pc = "idle"
    /\ LET start == [IdleAuth EXCEPT !.op = "patchUserProfile", !.auth = auth]
       IN  IF auth.userId # userId /\ ~hasRolePrivileges(auth.role, "admin")
           THEN areq' = [areq EXCEPT ![r] = Answer(start, NotFound)]
           ELSE IF userId \notin DOMAIN users
           THEN areq' = [areq EXCEPT ![r] = Answer([start EXCEPT !.opened = TRUE], NotFound)]
           ELSE areq' = [MarkStaleUser(areq, r, userId) EXCEPT
                           ![r] = Answer([start EXCEPT !.opened = TRUE,
                                                       !.user = users[userId]], Ok)]
    /\ UNCHANGED <<users, now, tokens, signed>>

\* ------------------------------------------------------- protected routes
\* Tokens presented to the user routes: none, the administrator's, one signed for
\* u1 as seller and one signed for u1 as admin
RoleTokenInputs ==
    {NoAccessToken,
     SignPayload([userId |-> Administrator, role |-> "admin", exp |-> MaxTime + 1]),
     SignPayload([userId |-> "u1", role |-> "seller", exp |-> MaxTime + 1]),
     SignPayload([userId |-> "u1", role |-> "admin", exp |-> MaxTime + 1])}

\* @Security(jwt, [Role.ADMIN]) patchUserFullInfo
patchUserFullInfoRoute(r, token, userId, role) ==
    IF token # NoAccessToken /\ VerifyToken(token) /\ hasRolePrivileges(token.role, "admin")
    THEN patchUserFullInfo(r, token.userId, userId, role)
    ELSE jwtValidator(r, token, [defined |-> TRUE, list |-> <<"admin">>])

\* @Security(jwt, [Role.BASIC]) patchUserProfile
patchUserProfileRoute(r, token, userId) ==
    IF token # NoAccessToken /\ VerifyToken(token) /\ hasRolePrivileges(token.role, "basic")
    THEN patchUserProfile(r, [userId |-> token.userId, role |-> token.role], userId)
    ELSE jwtValidator(r, token, [defined |-> TRUE, list |-> <<"basic">>])

\* The response has been sent: the slot takes the next request.
RespondAuth(r) ==
    /\ UNCHANGED <<invVars, catVars>>
    /\ areq[r].pc = "done"
    /\ areq' = [areq EXCEPT ![r] = IdleAuth]
    /\ UNCHANGED <<users, now, tokens, signed>>

\* Time passes.
Tick ==
    /\ UNCHANGED <<invVars, catVars>>
    /\ now < MaxTime
    /\ now' = now + 1
    /\ UNCHANGED <<users, tokens, signed, areq>>

\* ------------------------------------------------------ product catalogue
ProductCategory == {"tshirt", "bag", "book"}
\* The combinations of tags a creation request can carry
TagInputs == {"tags1", "tags2"}
NoTags == "null"
IdleProductReq == [op |-> "none", tags |-> NoTags, status |-> 0, data |-> 0]

\* The tags a satellite table holds
TagsOf(table) == {table[id] : id \in DOMAIN table}

\* Product.create({name, description, price, category})
createProduct(category) == Append(product, [category |-> category, active |-> TRUE])

\* switch (this.category): getTshirt, getBag or getBook
GetCategoryTags(productId) ==
    CASE product[productId].category = "tshirt" ->
            IF productId \in DOMAIN tshirt THEN tshirt[productId] ELSE NoTags
      [] product[productId].category = "bag" ->
            IF productId \in DOMAIN bag THEN bag[productId] ELSE NoTags
      [] product[productId].category = "book" ->
            IF productId \in DOMAIN book THEN book[productId] ELSE NoTags

\* createProduct(body, ProductCategory.TSHIRT, t); product.createTshirt(tags)
createTshirt(tags) ==
    /\ UNCHANGED <<invVars, authVars>>
    /\ Len(product) < MaxProducts
    /\ IF tags \in TagsOf(tshirt)
       THEN \* UniqueConstraintError: rolled back, ConflitError
            /\ preq' = [op |-> "createTshirt", tags |-> tags, status |-> Conflict, data |-> 0]
            /\ UNCHANGED <<product, tshirt, bag, book>>
       ELSE /\ product' = createProduct("tshirt")
            /\ tshirt' = tshirt @@ (Len(product') :> tags)
            /\ preq' = [op |-> "createTshirt", tags |-> tags, status |-> Created,
                        data |-> Len(product')]
            /\ UNCHANGED <<bag, book>>

\* createProduct(body, ProductCategory.BAG, t); product.createBag(tags)
createBag(tags) ==
    /\ UNCHANGED <<invVars, authVars>>
    /\ Len(product) < MaxProducts
    /\ IF tags \in TagsOf(bag)
       THEN /\ preq' = [op |-> "createBag", tags |-> tags, status |-> Conflict, data |-> 0]
            /\ UNCHANGED <<product, tshirt, bag, book>>
       ELSE /\ product' = createProduct("bag")
            /\ bag' = bag @@ (Len(product') :> tags)
            /\ preq' = [op |-> "createBag", tags |-> tags, status |-> Created,
                        data |-> Len(product')]
            /\ UNCHANGED <<tshirt, book>>

\* createProduct(body, ProductCategory.BAG, t); product.createBook(tags)
createBook(tags) ==
    /\ UNCHANGED <<invVars, authVars>>
    /\ Len(product) < MaxProducts
    /\ IF tags \in TagsOf(book)
       THEN /\ preq' = [op |-> "createBook", tags |-> tags, status |-> Conflict, data |-> 0]
            /\ UNCHANGED <<product, tshirt, bag, book>>
       ELSE /\ product' = createProduct("bag")
            /\ book' = book @@ (Len(product') :> tags)
            /\ preq' = [op |-> "createBook", tags |-> tags, status |-> Created,
                        data |-> Len(product')]
            /\ UNCHANGED <<tshirt, bag>>

\* product.update({name, price, description, active})
updateProduct(productId, active) ==
    /\ UNCHANGED <<invVars, authVars>>
    /\ IF productId \notin 1 .. Len(product)
       THEN /\ preq' = [op |-> "updateProduct", tags |-> NoTags, status |-> NotFound,
                        data |-> 0]
            /\ UNCHANGED product
       ELSE /\ product' = [product EXCEPT ![productId].active = active]
            /\ preq' = [op |-> "updateProduct", tags |-> GetCategoryTags(productId),
                        status |-> Ok, data |-> productId]
    /\ UNCHANGED <<tshirt, bag, book>>

\* -------------------------------------------------------- specifications
Init ==
    /\ stock = InitStock
    /\ sales = <<>>
    /\ saleItems = {}
    /\ req = [r \in Reqs |-> IdleReq]
    /\ users = InitUsers
    /\ now = 0
    /\ tokens = 0
    /\ signed = [u \in UserIds |-> NoPayload]
    /\ areq = [r \in Reqs |-> IdleAuth]
    /\ product = <<>>
    /\ tshirt = <<>>
    /\ bag = <<>>
    /\ book = <<>>
    /\ preq = IdleProductReq

\* Concurrent sales: every slot takes sale requests.
NextSales ==
    \E r \in Reqs :
        \/ \E l \in Locations \cup {UnknownLocation}, list \in ListsOf(SaleItemInputs) :
                createSaleRequest(r, l, list)
        \/ createSaleCommit(r)
        \/ Respond(r)

SpecSales == Init /\ [][NextSales]_vars

\* Sales against stock updates: slot 1 takes the sale requests (of product p1 at
\* location l1), slot 2 the stock updates.
SaleSlot == CHOOSE r \in Reqs : \A x \in Reqs : r <= x
StockSlot == CHOOSE r \in Reqs : \A x \in Reqs : r >= x
Next ==
    \/ \E list \in ListsOf([key : {"p1"}, quantity : 1 .. MaxQty]) :
            createSaleRequest(SaleSlot, "l1", list)
    \/ createSaleCommit(SaleSlot)
    \/ \E p \in {"p1", UnknownProduct}, list \in ListsOf(StockItemInputs) :
            updateProductstockRequest(StockSlot, p, list)
    \/ updateProductstockCommit(StockSlot)
    \/ \E r \in Reqs : Respond(r)

Spec == Init /\ [][Next]_vars

\* Concurrent stock updates: every slot takes updates of the stock of p2, which has
\* a row at l1 and none at l2, or of a product that does not exist.
NextStock ==
    \E r \in Reqs :
        \/ \E p \in {"p2", UnknownProduct}, list \in ListsOf(StockSetInputs) :
                updateProductstockRequest(r, p, list)
        \/ updateProductstockCommit(r)
        \/ Respond(r)

SpecStock == Init /\ [][NextStock]_vars

\* Sessions: every slot takes login, refresh, logout and registration requests; the
\* administrator's requests arrive on one slot.
AdminSlot == CHOOSE r \in Reqs : \A x \in Reqs : r >= x
NextAuth ==
    \/ \E r \in Reqs :
        \/ \E username \in Usernames, password \in {"alicepw", "bobpw"} :
                loginRequest(r, username, password)
        \/ loginCommit(r)
        \/ \E a \in AccessTokenInputs, t \in RefreshTokenInputs : refreshRequest(r, a, t)
        \/ refreshCommit(r)
        \/ \E a \in AccessTokenInputs, lookup \in {"ok", "fails"} :
                logoutRequest(r, a, lookup)
        \/ logoutCommit(r)
        \/ \E username \in Usernames : createUser(r, username, "bobpw")
        \/ RespondAuth(r)
    \/ \E auth \in {Administrator, "u1"}, userId \in {"u1", UnknownUser} :
            patchUserFullInfo(AdminSlot, auth, userId, "manager")
    \/ Tick

SpecAuth == Init /\ [][NextAuth]_vars

\* Two users with a session each: the User table holds alice and bob, both able to
\* log in; every slot takes login and refresh requests.
InitTwoUsers ==
    /\ stock = InitStock
    /\ sales = <<>>
    /\ saleItems = {}
    /\ req = [r \in Reqs |-> IdleReq]
    /\ users = InitUsers @@
            ("u2" :> [userId |-> "u2", username |-> "bob", password |-> "hash:bobpw",
                      role |-> "basic", token |-> NullToken,
                      tokenExpiresDate |-> NullDate])
    /\ now = 0
    /\ tokens = 0
    /\ signed = [u \in UserIds |-> NoPayload]
    /\ areq = [r \in Reqs |-> IdleAuth]
    /\ product = <<>>
    /\ tshirt = <<>>
    /\ bag = <<>>
    /\ book = <<>>
    /\ preq = IdleProductReq

NextTwoUsers ==
    \E r \in Reqs :
        \/ \E username \in Usernames, password \in {"alicepw", "bobpw"} :
                loginRequest(r, username, password)
        \/ loginCommit(r)
        \/ \E a \in AccessTokenInputs, t \in RefreshTokenInputs : refreshRequest(r, a, t)
        \/ refreshCommit(r)
        \/ RespondAuth(r)

SpecTwoUsers == InitTwoUsers /\ [][NextTwoUsers]_vars

\* Roles: users register, log in, refresh and log out on every slot; the routes
\* that update users are reached through jwtValidator on one slot.
NextRoles ==
    \/ \E r \in Reqs :
        \/ createUser(r, "bob", "bobpw")
        \/ loginRequest(r, "alice", "alicepw")
        \/ loginCommit(r)
        \/ \E a \in AccessTokenInputs, t \in RefreshTokenInputs : refreshRequest(r, a, t)
        \/ refreshCommit(r)
        \/ \E a \in AccessTokenInputs : logoutRequest(r, a, "ok")
        \/ logoutCommit(r)
        \/ RespondAuth(r)
    \/ \E token \in RoleTokenInputs, userId \in UserIds \cup {UnknownUser},
          role \in {"basic", "admin"} :
            patchUserFullInfoRoute(AdminSlot, token, userId, role)
    \/ \E token \in RoleTokenInputs, userId \in UserIds :
            patchUserProfileRoute(AdminSlot, token, userId)

SpecRoles == Init /\ [][NextRoles]_vars

\* Protected routes: every slot takes requests that pass through jwtValidator.
NextGuard ==
    \/ \E r \in Reqs :
        \/ \E token \in GuardTokenInputs, scopes \in ScopeInputs :
                jwtValidator(r, token, scopes)
        \/ RespondAuth(r)
    \/ Tick

SpecGuard == Init /\ [][NextGuard]_vars

\* The catalogue: products are created and updated.
NextProducts ==
    \/ \E tags \in TagInputs : createTshirt(tags)
    \/ \E tags \in TagInputs : createBag(tags)
    \/ \E tags \in TagInputs : createBook(tags)
    \/ \E productId \in 1 .. MaxProducts, active \in BOOLEAN :
            updateProduct(productId, active)

SpecProducts == Init /\ [][NextProducts]_vars

\* ================================================================= claims
\* The commit step of the sale in slot r
SaleCommits(r) == req[r].op = "sale" /\ req[r].pc = "tx" /\ req'[r].pc = "done"

\* Some requested item has no Stock row at the location in what the transaction
\* read, or asks for more than that row holds.
SnapshotLacks(r) ==
    \E i \in 1 .. Len(req[r].list) :
        \/ req[r].list[i].key \notin DOMAIN req[r].snapshot
        \/ req[r].snapshot[req[r].list[i].key] < req[r].list[i].quantity

\* C1: a createSale in which some item has no Stock row at the location or asks for
\* more than the row's quantity ends in Conflict and leaves Stock, Sale and SaleItem
\* as they were; the decrements already applied in memory are not persisted.
C1_RejectedSaleChangesNothing ==
    [][\A r \in Reqs : (SaleCommits(r) /\ SnapshotLacks(r)) =>
            /\ req'[r].status = Conflict
            /\ stock' = stock /\ sales' = sales /\ saleItems' = saleItems]_vars

\* C1 witness: a sale was answered Conflict after an earlier item of its list had
\* been decremented in memory.
C1_Witness ==
    \E r \in Reqs :
        /\ req[r].op = "sale" /\ req[r].pc = "done" /\ req[r].status = Conflict
        /\ req[r].rows # req[r].snapshot
        /\ stock = InitStock /\ sales = <<>> /\ saleItems = {}

\* Quantity of product k[1] the request in slot r asks at location k[2]
Asked(r, k) ==
    IF req[r].op = "sale" /\ req[r].pc \in {"tx", "done"} /\ req[r].status # BadRequest
       /\ req[r].locationId = k[2]
       /\ \E i \in 1 .. Len(req[r].list) : req[r].list[i].key = k[1]
    THEN LET i == CHOOSE j \in 1 .. Len(req[r].list) : req[r].list[j].key = k[1]
         IN  req[r].list[i].quantity
    ELSE 0

\* Quantity of k the requests in slots 1 .. n ask together
RECURSIVE TotalAsked(_, _)
TotalAsked(n, k) == IF n = 0 THEN 0 ELSE Asked(n, k) + TotalAsked(n - 1, k)

Sold(r, k) == IF req[r].status = Created THEN Asked(r, k) ELSE 0
\* Quantity of k the successful requests in slots 1 .. n sold together
RECURSIVE TotalSold(_, _)
TotalSold(n, k) == IF n = 0 THEN 0 ELSE Sold(n, k) + TotalSold(n - 1, k)

\* C2: when the sales in the slots together ask more of a stock row than it
\* initially held, the quantity stays >= 0, the successful ones together sold no
\* more than the row held, and every other one is answered Conflict.
C2_ConcurrentSalesConflict ==
    \A k \in DOMAIN InitStock :
        TotalAsked(NumReqs, k) > InitStock[k] =>
            /\ stock[k] >= 0
            /\ TotalSold(NumReqs, k) <= InitStock[k]
            /\ \A r \in Reqs : (req[r].pc = "done" /\ Asked(r, k) > 0) =>
                    req[r].status \in {Created, Conflict}

\* C3: every persisted Stock row has quantity >= 0.
C3_StockNeverNegative == \A k \in DOMAIN stock : stock[k] >= 0

\* C4: a createSale without repeated productIds is answered Conflict exactly when
\* some item has no Stock row or the row holds less than asked; a sale of exactly
\* the remaining quantity leaves the row at 0; a sale of a product whose row is at 0
\* is answered Conflict and the row stays at 0.
C4_ConflictIffLacking ==
    [][\A r \in Reqs : SaleCommits(r) =>
            /\ (req'[r].status = Conflict) <=> SnapshotLacks(r)
            /\ \A i \in 1 .. Len(req[r].list) :
                LET k == <<req[r].list[i].key, req[r].locationId>> IN
                /\ (req'[r].status = Created
                        /\ req[r].snapshot[k[1]] = req[r].list[i].quantity)
                    => stock'[k] = 0
                /\ (k[1] \in DOMAIN req[r].snapshot /\ req[r].snapshot[k[1]] = 0)
                    => (req'[r].status = Conflict /\ stock' = stock)]_vars

\* C4 witness: a row was sold out and a further sale of it was answered Conflict.
C4_Witness ==
    \E r \in Reqs :
        /\ req[r].op = "sale" /\ req[r].pc = "done" /\ req[r].status = Conflict
        /\ req[r].list = <<[key |-> "p1", quantity |-> 1]>> /\ req[r].locationId = "l1"
        /\ req[r].snapshot["p1"] = 0 /\ stock[<<"p1", "l1">>] = 0
        /\ \E it \in saleItems : it.productId = "p1" /\ it.quantity = MaxQty

\* Quantity the list of slot r asks of stock row k
AskedOf(r, k) ==
    IF req[r].locationId = k[2] /\ \E i \in 1 .. Len(req[r].list) : req[r].list[i].key = k[1]
    THEN LET i == CHOOSE j \in 1 .. Len(req[r].list) : req[r].list[j].key = k[1]
         IN  req[r].list[i].quantity
    ELSE 0

\* C5: a successful createSale adds exactly one Sale row (completed, the caller as
\* seller, the requested location), exactly one SaleItem per requested item, takes
\* exactly the requested quantity off each requested Stock row, and changes nothing
\* else.
C5_SuccessfulSaleEffect ==
    [][\A r \in Reqs : (SaleCommits(r) /\ req'[r].status = Created) =>
            /\ sales' = Append(sales, [status |-> "completed", sellerId |-> Caller(r),
                                       locationId |-> req[r].locationId])
            /\ req'[r].data = Len(sales')
            /\ saleItems \subseteq saleItems'
            /\ Cardinality(saleItems' \ saleItems) = Len(req[r].list)
            /\ \A i \in 1 .. Len(req[r].list) :
                    [saleId |-> Len(sales'), productId |-> req[r].list[i].key,
                     quantity |-> req[r].list[i].quantity] \in saleItems'
            /\ DOMAIN stock' = DOMAIN stock
            /\ \A k \in DOMAIN stock : stock'[k] = stock[k] - AskedOf(r, k)
            /\ \A x \in Reqs \ {r} : [req'[x] EXCEPT !.stale = {}] = [req[x] EXCEPT !.stale = {}]
            /\ users' = users
      ]_vars

\* C5 witness: a sale of two products succeeded at l1 while l2 kept its stock.
C5_Witness ==
    \E r \in Reqs :
        /\ req[r].op = "sale" /\ req[r].pc = "done" /\ req[r].status = Created
        /\ Len(req[r].list) = 2 /\ req[r].locationId = "l1"
        /\ Len(sales) = 2 /\ sales[2].sellerId = Caller(r)
        /\ stock[<<"p1", "l2">>] = InitStock[<<"p1", "l2">>]

\* Some key occurs twice
Repeats(ids) == \E i, j \in 1 .. Len(ids) : i < j /\ ids[i] = ids[j]

\* C6: a createSale or updateStock whose list repeats a key is answered BadRequest
\* with no transaction opened, and a list without repeated keys is never answered
\* by this check.
C6_RepeatedKeysRejectedFirst ==
    \A r \in Reqs :
        /\ req[r].pc = "tx" => ~Repeats(Keys(req[r].list))
        /\ (req[r].pc = "done" /\ Repeats(Keys(req[r].list))) =>
                (req[r].status = BadRequest /\ ~req[r].opened)
        /\ req[r].status = BadRequest => Repeats(Keys(req[r].list))
        /\ req[r].opened => req[r].pc \in {"tx", "done"}

\* C6 witness: a sale and a stock update, each repeating a key, both answered 400
\* without a transaction.
C6_Witness ==
    /\ req[SaleSlot].op = "sale" /\ req[SaleSlot].status = BadRequest
    /\ ~req[SaleSlot].opened /\ Len(req[SaleSlot].list) = 2
    /\ req[StockSlot].op = "stock" /\ req[StockSlot].status = BadRequest
    /\ ~req[StockSlot].opened /\ Len(req[StockSlot].list) = 2
    /\ stock = InitStock

\* The commit step of the refresh in slot r
RefreshCommits(r) == areq[r].op = "refresh" /\ areq[r].pc = "tx" /\ areq'[r].pc = "done"
\* The request step of a refresh in slot r that opens its transaction
RefreshReads(r) == areq[r].pc = "idle" /\ areq'[r].op = "refresh" /\ areq'[r].pc = "tx"

RefreshMismatch(r) ==
    LET u == areq'[r].accessToken.userId IN
    \/ u \notin DOMAIN users
    \/ users[u].token # areq'[r].refreshToken
    \/ users[u].tokenExpiresDate < now

\* C8: a refresh whose refresh token is not the one stored for the claimed user, or
\* whose stored token has expired, is answered ForbiddenError, leaves the stored
\* token and expiry as they were and sets no cookies.
C8_RefreshFailsClosed ==
    [][\A r \in Reqs :
        /\ RefreshReads(r) => (areq'[r].valid <=> ~RefreshMismatch(r))
        /\ (RefreshCommits(r) /\ ~areq[r].valid) =>
                /\ areq'[r].status = Forbidden
                /\ users' = users
                /\ areq'[r].cookies = NoCookies
      ]_vars

\* C8 witness: a refresh presenting the stored token after its expiry was answered
\* ForbiddenError and the row still stores that token.
C8_Witness ==
    \E r \in Reqs :
        /\ areq[r].op = "refresh" /\ areq[r].pc = "done" /\ areq[r].status = Forbidden
        /\ areq[r].user # NoUser /\ areq[r].cookies = NoCookies
        /\ users[areq[r].user.userId].token = areq[r].refreshToken
        /\ users[areq[r].user.userId].tokenExpiresDate = areq[r].user.tokenExpiresDate

\* C9: a refresh lacking the access token or the refresh token is answered
\* AuthenticationError whatever else holds; otherwise one whose access token does not
\* verify is answered ForbiddenError; in both cases no transaction was opened and no
\* User row was read.
C9_RefreshChecksOrdered ==
    \A r \in Reqs : areq[r].op = "refresh" =>
        IF areq[r].accessToken = NoAccessToken \/ areq[r].refreshToken = NullToken
        THEN areq[r].pc = "done" /\ areq[r].status = Authentication
             /\ ~areq[r].opened /\ areq[r].user = NoUser /\ areq[r].cookies = NoCookies
        ELSE areq[r].accessToken.sig # "ok" =>
                (areq[r].pc = "done" /\ areq[r].status = Forbidden
                 /\ ~areq[r].opened /\ areq[r].user = NoUser /\ areq[r].cookies = NoCookies)

\* C9 witness: a refresh with an access token that does not verify and no refresh
\* token was answered 401, another with that access token and a refresh token 403.
C9_Witness ==
    \E r1, r2 \in Reqs :
        /\ areq[r1].op = "refresh" /\ areq[r1].status = Authentication
        /\ areq[r1].accessToken = BadAccessToken /\ areq[r1].refreshToken = NullToken
        /\ areq[r2].op = "refresh" /\ areq[r2].status = Forbidden
        /\ areq[r2].accessToken = BadAccessToken /\ areq[r2].refreshToken # NullToken
        /\ ~areq[r2].opened

PairedTokenFields ==
    \A u \in DOMAIN users :
        (users[u].token = NullToken) <=> (users[u].tokenExpiresDate = NullDate)

\* C10: every User row's refresh token and expiry are both null or both set, and
\* only the commit of a login, a refresh or a logout changes them.
C10_TokenPairInvariant ==
    /\ PairedTokenFields
    /\ [][/\ PairedTokenFields'
          /\ \A u \in DOMAIN users :
                (users'[u].token # users[u].token
                    \/ users'[u].tokenExpiresDate # users[u].tokenExpiresDate) =>
                \E r \in Reqs : /\ areq[r].op \in {"login", "refresh", "logout"}
                                /\ areq[r].pc = "tx" /\ areq'[r].pc = "done"
                                /\ areq[r].user.userId = u
          /\ \A u \in DOMAIN users' \ DOMAIN users :
                users'[u].token = NullToken /\ users'[u].tokenExpiresDate = NullDate
         ]_vars

\* C10 witness: a user has been registered and holds no token, and a logout has
\* cleared the token a login had stored for another user.
C10_Witness ==
    /\ "u2" \in DOMAIN users
    /\ users["u2"].token = NullToken /\ users["u2"].tokenExpiresDate = NullDate
    /\ users["u1"].token = NullToken /\ users["u1"].tokenExpiresDate = NullDate
    /\ \E r \in Reqs : areq[r].op = "logout" /\ areq[r].pc = "done"
                       /\ areq[r].user.userId = "u1" /\ areq[r].user.token # NullToken

\* The commit step of the login in slot r
LoginCommits(r) == areq[r].op = "login" /\ areq[r].pc = "tx" /\ areq'[r].pc = "done"
\* The request step of a login in slot r
LoginReads(r) == areq[r].pc = "idle" /\ areq'[r].op = "login" /\ areq'[r].pc = "tx"
\* The username of the login in slot r has no row, or the password is not the row's
LoginRefused(r) ==
    \/ \A u \in DOMAIN users : users[u].username # areq'[r].username
    \/ \E u \in DOMAIN users : /\ users[u].username = areq'[r].username
                               /\ ~ValidateData(areq'[r].password, users[u].password)
\* What the client of slot r sees of its response
Response(r) == [status |-> areq[r].status, cookies |-> areq[r].cookies,
                cleared |-> areq[r].cleared]

\* C11: a login with an unknown username and a login with a known username and a
\* wrong password are both answered NotFound with the same response, set no
\* cookies and leave every User row unchanged.
C11_LoginNonEnumeration ==
    /\ [](\A r1, r2 \in Reqs :
            (/\ areq[r1].op = "login" /\ areq[r1].pc = "done" /\ ~areq[r1].valid
             /\ areq[r2].op = "login" /\ areq[r2].pc = "done" /\ ~areq[r2].valid)
            => Response(r1) = Response(r2))
    /\ [][\A r \in Reqs :
            /\ LoginReads(r) => (areq'[r].valid <=> ~LoginRefused(r))
            /\ (LoginCommits(r) /\ ~areq[r].valid) =>
                    /\ areq'[r].status = NotFound
                    /\ areq'[r].cookies = NoCookies
                    /\ users' = users
         ]_vars

\* C11 witness: while a user holds a refresh token, a login with an unknown
\* username and a login with that user's name and a wrong password were both
\* answered NotFound.
C11_Witness ==
    /\ users["u1"].token # NullToken
    /\ "u2" \notin DOMAIN users
    /\ \E r1, r2 \in Reqs :
        /\ areq[r1].op = "login" /\ areq[r1].pc = "done" /\ areq[r1].status = NotFound
        /\ areq[r1].username = "bob" /\ areq[r1].user = NoUser
        /\ areq[r2].op = "login" /\ areq[r2].pc = "done" /\ areq[r2].status = NotFound
        /\ areq[r2].username = "alice" /\ areq[r2].password = "bobpw"
        /\ areq[r2].user.token = users["u1"].token

\* C12: a login answered 200 has stored, for the user whose name and password it
\* gave, a refresh token no row held and no client was handed before, with expiry
\* the time of the login plus the refresh lifetime; its refresh cookie is the stored
\* token and its access token carries the row's userId and role; a login sets
\* cookies only together with the commit of that row.
C12_SuccessfulLoginState ==
    [][\A r \in Reqs : LoginCommits(r) =>
        IF areq'[r].status = Ok
        THEN LET u == areq[r].user.userId IN
             /\ areq[r].valid
             /\ users[u].username = areq[r].username
             /\ users'[u].token # NullToken
             /\ users'[u].token \notin 1 .. tokens
             /\ users'[u].tokenExpiresDate = now + RefreshTTL
             /\ areq'[r].cookies.refresh = users'[u].token
             /\ areq'[r].cookies.access.sig = "ok"
             /\ areq'[r].cookies.access.userId = u
             /\ areq'[r].cookies.access.role = users'[u].role
             /\ \A x \in DOMAIN users \ {u} : users'[x] = users[x]
        ELSE areq'[r].cookies = NoCookies /\ users' = users
      ]_vars

\* C12 witness: a login at time 1 of a user whose role had been changed was
\* answered 200.
C12_Witness ==
    \E r \in Reqs :
        /\ areq[r].op = "login" /\ areq[r].pc = "done" /\ areq[r].status = Ok
        /\ areq[r].cookies.refresh = users["u1"].token
        /\ users["u1"].tokenExpiresDate = 1 + RefreshTTL
        /\ users["u1"].role = "manager"
        /\ areq[r].cookies.access.role = "manager"

\* The commit step of the logout in slot r
LogoutCommits(r) == areq[r].op = "logout" /\ areq[r].pc = "tx" /\ areq'[r].pc = "done"

\* C13: a logout is answered 204 with both cookies cleared whatever access token it
\* was given and whether or not the lookup or the save failed; one that reads a
\* row whose token and expiry are already null leaves the User table as it was.
C13_LogoutAlwaysSucceeds ==
    /\ [](\A r \in Reqs : (areq[r].op = "logout" /\ areq[r].pc = "done") =>
            (areq[r].status = NoContent /\ areq[r].cleared /\ areq[r].cookies = NoCookies))
    /\ [][\A r \in Reqs :
            /\ (areq[r].pc = "idle" /\ areq'[r].op = "logout") => users' = users
            /\ LogoutCommits(r) =>
                \A u \in DOMAIN users :
                    (users[u].token = NullToken /\ users[u].tokenExpiresDate = NullDate)
                        => users'[u] = users[u]
         ]_vars

\* C13 witness: a second logout of a user who had logged in, with an access token
\* that has expired, was answered 204 and found the token already cleared.
C13_Witness ==
    \E r \in Reqs :
        /\ areq[r].op = "logout" /\ areq[r].pc = "done" /\ areq[r].status = NoContent
        /\ areq[r].accessToken.sig = "ok" /\ areq[r].accessToken.exp < now
        /\ areq[r].user.userId = "u1" /\ areq[r].user.token = NullToken
        /\ signed["u1"] # NoPayload
        /\ users["u1"].token = NullToken /\ users["u1"].tokenExpiresDate = NullDate

\* C14: a logout whose access token verifies and whose lookup found the user's row
\* leaves that row's refresh token and expiry null; a refresh presenting a token
\* that is no longer stored is answered ForbiddenError; a logout whose token does
\* not verify changes no User row.
C14_LogoutRevokes ==
    [][\A r \in Reqs :
        /\ (LogoutCommits(r) /\ areq[r].user # NoUser) =>
                /\ users'[areq[r].user.userId].token = NullToken
                /\ users'[areq[r].user.userId].tokenExpiresDate = NullDate
        /\ (RefreshCommits(r) /\ areq[r].reused) => areq'[r].status = Forbidden
        /\ (areq[r].pc = "idle" /\ areq'[r].op = "logout"
                /\ ~VerifyTokenIgnoringExpiration(areq'[r].accessToken)) => users' = users
      ]_vars

\* The place of a role in the order basic < seller < manager < admin
Rank == ("basic" :> 0) @@ ("seller" :> 1) @@ ("manager" :> 2) @@ ("admin" :> 3)
\* Slot r holds a request whose token verified and whose route names a required role
RoleChecked(r) ==
    /\ areq[r].op = "jwtValidator"
    /\ areq[r].auth # NoAuth
    /\ areq[r].scopes.list # <<>>

\* C15: hasRolePrivileges(actual, required) holds exactly when actual is at or above
\* required in the order basic < seller < manager < admin; the relation is
\* reflexive, transitive and total, every role dominates basic and admin dominates
\* every role; a request whose role was checked reaches its handler exactly when
\* its role is at or above the required one.
C15_RoleDominance ==
    /\ \A a \in Roles, t \in Roles : hasRolePrivileges(a, t) <=> Rank[a] >= Rank[t]
    /\ \A a \in Roles : hasRolePrivileges(a, a)
    /\ \A a \in Roles, b \in Roles, c \in Roles :
            hasRolePrivileges(a, b) /\ hasRolePrivileges(b, c) => hasRolePrivileges(a, c)
    /\ \A a \in Roles, b \in Roles : hasRolePrivileges(a, b) \/ hasRolePrivileges(b, a)
    /\ \A a \in Roles : hasRolePrivileges(a, "basic") /\ hasRolePrivileges("admin", a)
    /\ \A r \in Reqs :
            RoleChecked(r) =>
                (areq[r].ran <=> Rank[areq[r].auth.role] >= Rank[areq[r].scopes.list[1]])

\* A manager got through a route that requires seller while a seller was refused on
\* a route that requires manager.
C15_Witness ==
    \E r1 \in Reqs, r2 \in Reqs :
        /\ RoleChecked(r1) /\ areq[r1].ran
        /\ areq[r1].auth.role = "manager" /\ areq[r1].scopes.list = <<"seller">>
        /\ RoleChecked(r2) /\ ~areq[r2].ran
        /\ areq[r2].auth.role = "seller" /\ areq[r2].scopes.list = <<"manager">>

\* Slot r takes a request to a protected route
GuardRuns(r) == areq[r].pc = "idle" /\ areq'[r].op = "jwtValidator"

StockCommits(r) == req[r].op = "stock" /\ req[r].pc = "tx" /\ req'[r].pc = "done"
\* The (productId, locationId) pairs the request in slot r lists
ListedKeys(r) == {<<req[r].productId, req[r].list[i].key>> : i \in 1 .. Len(req[r].list)}

\* C17: after an updateProductstock answered 204 every listed (productId, locationId)
\* Stock row exists with exactly the requested quantity, whatever it held before and
\* whether or not it existed, and every other Stock row, of that product or of
\* another, is as it was.
C17_StockAbsoluteSet ==
    [][\A r \in Reqs :
          StockCommits(r) /\ req'[r].status = NoContent =>
            /\ \A i \in 1 .. Len(req[r].list) :
                    LET k == <<req[r].productId, req[r].list[i].key>>
                    IN  k \in DOMAIN stock' /\ stock'[k] = req[r].list[i].quantity
            /\ DOMAIN stock' = DOMAIN stock \cup ListedKeys(r)
            /\ \A k \in DOMAIN stock \ ListedKeys(r) : stock'[k] = stock[k]
            /\ sales' = sales /\ saleItems' = saleItems
    ]_vars

\* An update of p2 answered 204 set the row at l1, which held 1, to 0 and created the
\* row at l2 with MaxQty; the rows of p1 are as they were.
C17_Witness ==
    \E r \in Reqs :
        /\ req[r].op = "stock" /\ req[r].pc = "done" /\ req[r].status = NoContent
        /\ req[r].list = <<[key |-> "l1", quantity |-> 0], [key |-> "l2", quantity |-> MaxQty]>>
        /\ stock = (<<"p2", "l1">> :> 0) @@ (<<"p2", "l2">> :> MaxQty) @@ InitStock

\* Some listed location of the request in slot r does not exist
ListsUnknownLocation(r) == \E k \in ListedKeys(r) : k[2] \notin Locations

RefreshSucceeded(r) ==
    areq[r].op = "refresh" /\ areq[r].pc = "done" /\ areq[r].status = NoContent

\* C19: of the refresh calls that present the same (userId, refresh token) pair at
\* most one succeeds; a refresh succeeds only while the stored token is still the
\* one it presented, the token it stores is the one it hands out, and a refresh
\* that does not succeed hands out nothing and leaves the row alone.
C19_ConcurrentRefresh ==
    /\ [](\A r1 \in Reqs, r2 \in Reqs :
            /\ RefreshSucceeded(r1) /\ RefreshSucceeded(r2)
            /\ areq[r1].accessToken.userId = areq[r2].accessToken.userId
            /\ areq[r1].refreshToken = areq[r2].refreshToken
            => r1 = r2)
    /\ [][\A r \in Reqs :
            RefreshCommits(r) =>
                LET u == areq[r].accessToken.userId IN
                IF areq'[r].status = NoContent
                THEN /\ users[u].token = areq[r].refreshToken
                     /\ users'[u].token = areq'[r].cookies.refresh
                     /\ users'[u].token \notin 0 .. tokens
                ELSE areq'[r].cookies = NoCookies /\ users' = users
        ]_vars

\* Two refreshes that presented the same token ran together: one was answered 204,
\* the other 500, and the row stores the token handed to the first.
C19_Witness ==
    \E r1 \in Reqs, r2 \in Reqs :
        /\ RefreshSucceeded(r1)
        /\ areq[r2].op = "refresh" /\ areq[r2].pc = "done"
        /\ areq[r2].status = ServerError /\ areq[r2].valid
        /\ areq[r1].refreshToken = areq[r2].refreshToken
        /\ areq[r1].accessToken.userId = areq[r2].accessToken.userId
        /\ users[areq[r1].accessToken.userId].token = areq[r1].cookies.refresh

\* The satellite tables that hold a row of the product
SatellitesOf(productId) ==
    {c \in ProductCategory :
        productId \in DOMAIN (CASE c = "tshirt" -> tshirt [] c = "bag" -> bag
                                [] c = "book" -> book)}
\* The category a creation operation is for
CategoryOf(op) ==
    CASE op = "createTshirt" -> "tshirt" [] op = "createBag" -> "bag"
      [] op = "createBook" -> "book" [] OTHER -> "none"

\* C20: every product created through createTshirt, createBag or createBook has
\* exactly one satellite row, of the kind of its stored category, which is the kind
\* it was created as; getCategoryTags on it returns the tags it was created with;
\* and its category never changes.
C20_CategorySatelliteConsistency ==
    /\ [](\A productId \in 1 .. Len(product) :
            SatellitesOf(productId) = {product[productId].category})
    /\ [](preq.status = Created =>
            /\ product[preq.data].category = CategoryOf(preq.op)
            /\ GetCategoryTags(preq.data) = preq.tags)
    /\ [][\A productId \in 1 .. Len(product) :
            product'[productId].category = product[productId].category]_vars

\* Slot r takes a refresh request
RefreshArrives(r) == areq[r].pc = "idle" /\ areq'[r].op = "refresh"

\* C21: a refresh that presents both cookies, an access token whose signature
\* verifies, whatever its expiry, and the refresh token stored and unexpired for the
\* token's user is accepted; unless the store aborts its save it is answered 204,
\* stores a new refresh token with expiry now + RefreshTTL and hands out that token
\* with a new access token.
C21_RefreshIgnoresAccessExpiry ==
    [][\A r \in Reqs :
        /\ (RefreshArrives(r) /\ areq'[r].refreshToken # NullToken
                /\ areq'[r].accessToken.sig = "ok" /\ ~RefreshMismatch(r)) =>
                (areq'[r].pc = "tx" /\ areq'[r].valid)
        /\ (RefreshCommits(r) /\ areq[r].valid /\ ~areq[r].stale) =>
                LET u == areq[r].accessToken.userId IN
                /\ areq'[r].status = NoContent
                /\ users'[u].token \notin 0 .. tokens
                /\ users'[u].tokenExpiresDate = now + RefreshTTL
                /\ areq'[r].cookies.refresh = users'[u].token
                /\ areq'[r].cookies.access =
                        SignPayload([userId |-> u, role |-> users[u].role,
                                     exp |-> now + AccessTTL])
      ]_vars

\* A session was extended twice: the second refresh presented an access token that
\* had expired and was answered 204, and the stored expiry is MaxTime + RefreshTTL.
C21_Witness ==
    \E r \in Reqs :
        /\ RefreshSucceeded(r)
        /\ areq[r].accessToken.exp < now
        /\ areq[r].accessToken.exp > 0
        /\ users[areq[r].accessToken.userId].tokenExpiresDate = MaxTime + RefreshTTL
        /\ users[areq[r].accessToken.userId].token = MaxTokens

\* Slot r holds a sale that was answered Conflict
SaleRefused(r) == req[r].op = "sale" /\ req[r].pc = "done" /\ req[r].status = Conflict
\* What the client of slot r is sent
SaleResponse(r) == [status |-> req[r].status, data |-> req[r].data]

\* C22: the Conflict answer of a refused createSale is the same whether a Stock row
\* is missing or a quantity is short, and whichever item of the list is the cause.
C22_ConflictDoesNotDisclose ==
    /\ [](\A r1 \in Reqs, r2 \in Reqs :
            SaleRefused(r1) /\ SaleRefused(r2) => SaleResponse(r1) = SaleResponse(r2))
    /\ [][\A r \in Reqs :
            SaleCommits(r) /\ SnapshotLacks(r) =>
                req'[r].status = Conflict /\ req'[r].data = 0
        ]_vars

\* One sale was refused for a product with no row at the location, another for its
\* second item, whose row holds less than was asked.
C22_Witness ==
    \E r1 \in Reqs, r2 \in Reqs :
        /\ SaleRefused(r1) /\ SaleRefused(r2)
        /\ req[r1].list[1].key \notin DOMAIN req[r1].snapshot
        /\ Len(req[r2].list) = 2
        /\ \A i \in 1 .. 2 : req[r2].list[i].key \in DOMAIN req[r2].snapshot
        /\ req[r2].list[1].quantity <= req[r2].snapshot[req[r2].list[1].key]
        /\ req[r2].list[2].quantity > req[r2].snapshot[req[r2].list[2].key]

\* C23: when jwtValidator is given no scopes, undefined or an empty list, and the
\* token verifies, the request reaches its handler whatever the role of the token.
C23_NoRequiredRole ==
    [][\A r \in Reqs :
          (GuardRuns(r) /\ VerifyToken(areq'[r].accessToken)
                /\ areq'[r].scopes.list = <<>>) =>
            /\ areq'[r].ran
            /\ areq'[r].status = 0
            /\ areq'[r].auth = [userId |-> areq'[r].accessToken.userId,
                                role |-> areq'[r].accessToken.role]
    ]_vars

\* Sum of the quantities of a set of SaleItem rows
RECURSIVE SumQuantity(_)
SumQuantity(items) ==
    IF items = {} THEN 0
    ELSE LET item == CHOOSE x \in items : TRUE
         IN  item.quantity + SumQuantity(items \ {item})
\* The committed SaleItems of product k[1] whose Sale is at location k[2]
ItemsSoldAt(k) ==
    {item \in saleItems : item.productId = k[1] /\ sales[item.saleId].locationId = k[2]}

\* C24: under createSale calls alone, for each (product, location) the initial stock
\* quantity is the current quantity plus the quantities of all committed SaleItems
\* of that product whose Sale is at that location; no Stock row appears or vanishes.
C24_StockConservation ==
    /\ DOMAIN stock = DOMAIN InitStock
    /\ \A k \in DOMAIN InitStock : InitStock[k] = stock[k] + SumQuantity(ItemsSoldAt(k))
    /\ \A item \in saleItems : item.saleId \in 1 .. Len(sales)

\* Two sales of p1 at l1 that ran together: one committed, the other was aborted by
\* the store, and the row holds what the committed one left.
C24_Witness ==
    \E r1 \in Reqs, r2 \in Reqs :
        /\ req[r1].op = "sale" /\ req[r1].pc = "done" /\ req[r1].status = Created
        /\ req[r2].op = "sale" /\ req[r2].pc = "done" /\ req[r2].status = ServerError
        /\ req[r1].locationId = "l1" /\ req[r2].locationId = "l1"
        /\ req[r1].list = <<[key |-> "p1", quantity |-> 1]>>
        /\ req[r2].list = <<[key |-> "p1", quantity |-> 1]>>
        /\ req[r2].valid
        /\ stock[<<"p1", "l1">>] = MaxQty - 1
        /\ Cardinality(saleItems) = 1

\* C25: a createSale and an updateProductstock that touch the same Stock row and
\* both succeed act one after the other: the sale that commits subtracts from the
\* quantity the row holds at that moment, which is the one it read, never from a
\* quantity the update has replaced since, and the update that commits leaves the
\* row at the quantity it lists.
C25_SaleVersusStockUpdate ==
    [][\A r \in Reqs :
        /\ (SaleCommits(r) /\ req'[r].status = Created) =>
                \A k \in SaleWriteKeys(r) :
                    /\ req[r].snapshot[k[1]] = stock[k]
                    /\ stock'[k] = stock[k] - AskedOf(r, k)
        /\ (StockCommits(r) /\ req'[r].status = NoContent) =>
                \A i \in 1 .. Len(req[r].list) :
                    stock'[<<req[r].productId, req[r].list[i].key>>] = req[r].list[i].quantity
      ]_vars

\* A sale of p1 at l1 read the row, an update then set the row to 0 and was answered
\* 204, and the sale, which had found enough stock, was aborted: the row holds 0.
C25_Witness ==
    /\ req[SaleSlot].op = "sale" /\ req[SaleSlot].pc = "done"
    /\ req[SaleSlot].valid /\ req[SaleSlot].status = ServerError
    /\ req[SaleSlot].snapshot[req[SaleSlot].list[1].key] = MaxQty
    /\ req[StockSlot].op = "stock" /\ req[StockSlot].pc = "done"
    /\ req[StockSlot].status = NoContent
    /\ req[StockSlot].list = <<[key |-> "l1", quantity |-> 0]>>
    /\ stock[<<"p1", "l1">>] = 0
    /\ saleItems = {}

\* C26: refresh accepts for a user only the refresh token the user's row stores; a
\* successful login replaces the stored token by one never handed out, a replaced
\* token is stored for no user again, and a refresh that presents one with an access
\* token that verifies is answered ForbiddenError, with no cookies and no write.
C26_OneLiveRefreshToken ==
    [][\A r \in Reqs :
        /\ (RefreshReads(r) /\ areq'[r].valid) =>
                /\ areq'[r].accessToken.userId \in DOMAIN users
                /\ users[areq'[r].accessToken.userId].token = areq'[r].refreshToken
        /\ (LoginCommits(r) /\ areq'[r].status = Ok) =>
                LET u == areq[r].user.userId IN
                /\ users'[u].token \notin 0 .. tokens
                /\ users[u].token # NullToken => users[u].token \in OldTokens'
        /\ (RefreshArrives(r) /\ areq'[r].refreshToken \in OldTokens
                /\ areq'[r].accessToken.sig = "ok") =>
                (areq'[r].pc = "tx" /\ ~areq'[r].valid)
        /\ (RefreshCommits(r) /\ ~areq[r].valid) =>
                /\ areq'[r].status = Forbidden
                /\ areq'[r].cookies = NoCookies
                /\ users' = users
        /\ \A t \in OldTokens : t \in OldTokens'
      ]_vars

\* Two logins drew tokens 1 and 2; a refresh that presented token 1 with an access
\* token that verifies was answered ForbiddenError and the row stores token 2.
C26_Witness ==
    \E r1 \in Reqs, r2 \in Reqs :
        /\ tokens = 2
        /\ areq[r1].op = "login" /\ areq[r1].pc = "done" /\ areq[r1].status = Ok
        /\ areq[r1].cookies.refresh = 2
        /\ areq[r2].op = "refresh" /\ areq[r2].pc = "done"
        /\ areq[r2].status = Forbidden /\ areq[r2].opened
        /\ areq[r2].refreshToken = 1 /\ areq[r2].accessToken.userId = "u1"
        /\ users["u1"].token = 2

\* The refresh token the request in slot r presents is stored for a user other than
\* the one its access token names
TokenOfAnotherUser(r) ==
    /\ areq'[r].refreshToken # NullToken
    /\ \E u \in DOMAIN users :
            u # areq'[r].accessToken.userId /\ users[u].token = areq'[r].refreshToken

\* C27: a refresh is accepted only if the refresh token it presents is the one stored
\* for the user its access token names; a refresh that presents another user's
\* stored token with an access token that verifies is answered ForbiddenError and
\* changes no row.
C27_RefreshBoundToUser ==
    [][\A r \in Reqs :
        /\ (RefreshReads(r) /\ areq'[r].valid) =>
                /\ areq'[r].accessToken.userId \in DOMAIN users
                /\ users[areq'[r].accessToken.userId].token = areq'[r].refreshToken
        /\ (RefreshArrives(r) /\ areq'[r].accessToken.sig = "ok" /\ TokenOfAnotherUser(r)) =>
                (areq'[r].pc = "tx" /\ ~areq'[r].valid)
        /\ (RefreshCommits(r) /\ ~areq[r].valid) =>
                /\ areq'[r].status = Forbidden
                /\ areq'[r].cookies = NoCookies
                /\ users' = users
      ]_vars

\* Both users hold a session; a refresh that presented bob's access token with
\* alice's stored refresh token was answered ForbiddenError and both rows store
\* their tokens.
C27_Witness ==
    \E r \in Reqs :
        /\ areq[r].op = "refresh" /\ areq[r].pc = "done" /\ areq[r].status = Forbidden
        /\ areq[r].opened /\ areq[r].accessToken.userId = "u2"
        /\ areq[r].refreshToken = users["u1"].token
        /\ users["u1"].token # NullToken /\ users["u2"].token # NullToken
        /\ users["u2"].token # users["u1"].token

\* C28: the access token a successful refresh hands out carries the userId and the
\* role of the user's row as it is when the refresh commits, whatever role the
\* presented access token carries.
C28_RefreshedRoleIsCurrent ==
    [][\A r \in Reqs :
        (RefreshCommits(r) /\ areq'[r].status = NoContent) =>
            LET u == areq[r].accessToken.userId IN
            /\ areq'[r].cookies.access.sig = "ok"
            /\ areq'[r].cookies.access.userId = u
            /\ areq'[r].cookies.access.role = users[u].role
            /\ users'[u].role = users[u].role
      ]_vars

\* The administrator made u1 a manager; u1's next refresh presented the access token
\* signed for a seller and was handed one for a manager.
C28_Witness ==
    \E r \in Reqs :
        /\ RefreshSucceeded(r)
        /\ areq[r].accessToken.userId = "u1" /\ areq[r].accessToken.role = "seller"
        /\ areq[r].cookies.access.role = "manager"
        /\ users["u1"].role = "manager"

\* Slot r takes a patchUserFullInfo of the row of u from a caller who passed the
\* administrator check and is not u
PatchedByAnotherAdmin(r, u) ==
    /\ areq[r].pc = "idle" /\ areq'[r].op = "patchUserFullInfo"
    /\ areq'[r].user.userId = u
    /\ areq'[r].auth.userId # u
    /\ hasRolePrivileges(areq'[r].auth.role, "admin")

\* C29: a row created by registration has role basic, and the role of a row changes
\* only in a patchUserFullInfo of that row by a caller who passed the administrator
\* check and whose userId is not the row's: no registration, login, refresh, logout,
\* profile update or patchUserFullInfo on oneself changes the caller's role.
C29_RoleChangeAuthority ==
    [][/\ \A u \in DOMAIN users' \ DOMAIN users : users'[u].role = "basic"
       /\ \A u \in DOMAIN users :
            /\ u \in DOMAIN users'
            /\ users'[u].role # users[u].role =>
                    \E r \in Reqs :
                        PatchedByAnotherAdmin(r, u) /\ users'[u].role = areq'[r].role
      ]_vars

\* The administrator made u1 an admin; u1, with an admin's token, then asked to
\* become basic through patchUserFullInfo, was answered 200 and is still admin; bob
\* registered and is basic.
C29_Witness ==
    \E r \in Reqs :
        /\ areq[r].op = "patchUserFullInfo" /\ areq[r].pc = "done" /\ areq[r].status = Ok
        /\ areq[r].auth.userId = "u1" /\ areq[r].user.userId = "u1"
        /\ areq[r].role = "basic"
        /\ users["u1"].role = "admin"
        /\ "u2" \in DOMAIN users /\ users["u2"].role = "basic"

\* Slot r takes a createSale with an empty list
EmptySaleArrives(r) ==
    req[r].pc = "idle" /\ req'[r].op = "sale" /\ req'[r].list = <<>>

====
